---- MODULE Spec2Model ----
(***************************************************************************)
(* A model of the noktulo Kademlia overlay (src/src/kad) and of the        *)
(* services built on it (src/src/service).                                 *)
(*                                                                         *)
(* Keys are byte sequences, a routing table is the vector of buckets of    *)
(* kad/routing.rs, and every tokio task of kad/node.rs is a record of the  *)
(* set `tasks` with a program position `pc`.  One action is one stretch of *)
(* code between two suspension points (a mutex acquisition that can block, *)
(* a wait for an RPC outcome, a join).                                     *)
(***************************************************************************)
EXTENDS Integers, Sequences, FiniteSets, TLC

(***************************************************************************)
(* Bounds of the model and constants of the program.                       *)
(***************************************************************************)
\* key_length of the modelled overlay, in bytes (32 and 64 in service/mod.rs)
KeyLen == 2
\* length of a multicast prefix, in bytes (an Address, shorter than KeyLen)
PrefixLen == 1

\* the number of tokens Key::random can draw for a call (2^160 in the code)
TokenSpace == 2

\* the longest byte string a function is applied to
MaxLen == 4

\* the number of calls made on one UserHandle
MaxOps == 3

\* kad/mod.rs: K_PARAM
K_PARAM == 8

(***************************************************************************)
(* kad/key.rs                                                              *)
(***************************************************************************)
RECURSIVE XorByte(_, _, _)
\* u8 ^ u8, bit by bit over the `n` low bits
XorByte(a, b, n) ==
    IF n = 0 THEN 0
    ELSE (IF (a % 2) = (b % 2) THEN 0 ELSE 1) + 2 * XorByte(a \div 2, b \div 2, n - 1)

\* impl BitXor for Key (both keys of the same length)
KeyXor(a, b) == [i \in 1..Len(a) |-> XorByte(a[i], b[i], 8)]

RECURSIVE HighBit(_, _)
\* the largest j <= from with bit j of byte b set (b # 0)
HighBit(b, from) ==
    IF (b \div (2 ^ from)) % 2 # 0 THEN from ELSE HighBit(b, from - 1)

RECURSIVE ZeroesFrom(_, _)
ZeroesFrom(k, i) ==
    IF i > Len(k) THEN Len(k) * 8 - 1
    ELSE IF k[i] = 0 THEN ZeroesFrom(k, i + 1)
    ELSE (i - 1) * 8 + HighBit(k[i], 7)

\* zeroes_in_prefix without its value for the key of zero bytes only
zeroes_of_set_bit(k) ==
    IF \A i \in 1..Len(k) : k[i] = 0 THEN 0 ELSE ZeroesFrom(k, 1)

\* Key::zeroes_in_prefix
zeroes_in_prefix(k) == ZeroesFrom(k, 1)

RECURSIVE PrefixFrom(_, _, _)
PrefixFrom(p, k, i) ==
    IF i > Len(p) THEN TRUE
    ELSE IF p[i] # k[i] THEN FALSE
    ELSE PrefixFrom(p, k, i + 1)

\* a sink fed by every Multicast whatever the node's id: is_prefix without
\* its comparison of the bytes
is_prefix_any(p, other) == Len(p) <= Len(other)

\* Key::is_prefix: self is a prefix of other
is_prefix(p, other) ==
    IF Len(p) > Len(other) THEN FALSE ELSE PrefixFrom(p, other, 1)

\* Key::resize: truncate or zero-extend
resize(k, n) == [i \in 1..n |-> IF i <= Len(k) THEN k[i] ELSE 0]

RECURSIVE KeyLessFrom(_, _, _)
KeyLessFrom(a, b, i) ==
    IF i > Len(a) \/ i > Len(b) THEN Len(a) < Len(b)
    ELSE IF a[i] # b[i] THEN a[i] < b[i]
    ELSE KeyLessFrom(a, b, i + 1)

\* derive(Ord) on Key(Vec<u8>): lexicographic order
KeyLess(a, b) == KeyLessFrom(a, b, 1)

\* Key::hash(data, TOKEN_KEY_LEN): the fingerprint of a payload.  SHA3 is
\* taken to be collision free on the payloads of the model.
KeyHash(msg) == <<"sha3", msg>>

(***************************************************************************)
(* kad/routing.rs                                                          *)
(***************************************************************************)
NodeInfo(id, addr, net) == [id |-> id, addr |-> addr, net_id |-> net]

NoInfo == NodeInfo(<<>>, "", "")

\* Option<NodeInfo>: None is <<>>, Some(x) is <<x>>
None == <<>>
Some(x) == <<x>>

\* the first index at which the sequence is TRUE, 0 when there is none
First(hits) ==
    IF \E i \in 1..Len(hits) : hits[i]
    THEN CHOOSE i \in 1..Len(hits) : hits[i] /\ \A j \in 1..(i - 1) : ~hits[j]
    ELSE 0

\* iter().position(|x| x.id == id), 1-based, 0 for None
PositionById(s, id) == First([i \in 1..Len(s) |-> s[i].id = id])

\* iter().position(|x| x == info), 1-based, 0 for None
PositionOf(s, info) == First([i \in 1..Len(s) |-> s[i] = info])

\* Vec::remove(i)
RemoveAt(s, i) == SubSeq(s, 1, i - 1) \o SubSeq(s, i + 1, Len(s))

\* every id filed in the first bucket
first_bucket(rt, item) == 0

\* RoutingTable::lookup_bucket_index
lookup_bucket_index(rt, item) == zeroes_in_prefix(KeyXor(rt.node_info.id, item))

\* an update that pushes the peer whatever the length of the bucket
update_push(rt, info) ==
    [rt  |-> [rt EXCEPT !.buckets[lookup_bucket_index(rt, info.id)] = Append(@, info)],
     ret |-> None]

\* an update that leaves a resident where it is
update_in_place(rt, info) ==
    LET bucket == rt.buckets[lookup_bucket_index(rt, info.id)]
    IN  IF PositionById(bucket, info.id) # 0 THEN [rt |-> rt, ret |-> None]
        ELSE IF Len(bucket) < K_PARAM THEN update_push(rt, info)
        ELSE [rt |-> rt, ret |-> Some(bucket[1])]

\* an update that hands out the tail of a full bucket
update_return_tail(rt, info) ==
    LET bucket == rt.buckets[lookup_bucket_index(rt, info.id)]
        i      == PositionById(bucket, info.id)
    IN  IF i # 0 \/ Len(bucket) < K_PARAM
        THEN update_push([rt EXCEPT !.buckets[lookup_bucket_index(rt, info.id)] =
                                       IF i # 0 THEN RemoveAt(bucket, i) ELSE bucket],
                         IF i # 0 THEN bucket[i] ELSE info)
        ELSE [rt |-> rt, ret |-> Some(bucket[Len(bucket)])]

\* RoutingTable::update: the table afterwards and the returned candidate
RT_update(rt, info) ==
    LET b      == lookup_bucket_index(rt, info.id)
        bucket == rt.buckets[b]
        i      == PositionById(bucket, info.id)
    IN  IF i # 0
        THEN [rt  |-> [rt EXCEPT !.buckets[b] = Append(RemoveAt(bucket, i), bucket[i])],
              ret |-> None]
        ELSE IF Len(bucket) < K_PARAM
        THEN [rt |-> [rt EXCEPT !.buckets[b] = Append(bucket, info)], ret |-> None]
        ELSE [rt |-> rt, ret |-> Some(bucket[1])]

\* RoutingTable::new
RT_new(info, key_len) ==
    RT_update([key_len   |-> key_len,
               node_info |-> info,
               buckets   |-> [b \in 0..(key_len * 8 - 1) |-> <<>>]], info).rt

\* RoutingTable::remove
RT_remove(rt, info) ==
    LET b == lookup_bucket_index(rt, info.id)
        i == PositionOf(rt.buckets[b], info)
    IN  IF i # 0 THEN [rt EXCEPT !.buckets[b] = RemoveAt(rt.buckets[b], i)] ELSE rt

RECURSIVE Flatten(_, _)
\* every resident, bucket by bucket
Flatten(rt, b) ==
    IF b >= rt.key_len * 8 THEN <<>> ELSE rt.buckets[b] \o Flatten(rt, b + 1)

RECURSIVE InsertByDist(_, _)
\* stable insertion of pair e into a list sorted by the second component
InsertByDist(s, e) ==
    IF s = <<>> THEN <<e>>
    ELSE IF KeyLess(e[2], Head(s)[2]) THEN <<e>> \o s
    ELSE <<Head(s)>> \o InsertByDist(Tail(s), e)

RECURSIVE SortByDist(_)
\* Vec::sort_by(|a, b| a.1.cmp(&b.1))
SortByDist(s) ==
    IF s = <<>> THEN <<>>
    ELSE InsertByDist(SortByDist(SubSeq(s, 1, Len(s) - 1)), s[Len(s)])

\* Vec::truncate
Truncate(s, n) == SubSeq(s, 1, IF Len(s) < n THEN Len(s) ELSE n)

\* closest_nodes without its sort: the first residents in bucket order
closest_unsorted(rt, item, count) ==
    IF count = 0 THEN <<>>
    ELSE LET all == Flatten(rt, 0)
             pairs == [i \in 1..Len(all) |-> <<all[i], KeyXor(all[i].id, item)>>]
         IN  Truncate(pairs, count)

\* RoutingTable::closest_nodes
RT_closest_nodes(rt, item, count) ==
    IF count = 0 THEN <<>>
    ELSE LET all == Flatten(rt, 0)
             pairs == [i \in 1..Len(all) |-> <<all[i], KeyXor(all[i].id, item)>>]
         IN  Truncate(SortByDist(pairs), count)

(***************************************************************************)
(* kad/node.rs: requests, replies, datagrams and tasks                     *)
(***************************************************************************)
\* enum Request; `key` is the key, id or prefix, `val` the stored value,
\* `msg` the payload of Unicast, Broadcast and Multicast
Request(op, key, val, msg) == [op |-> op, key |-> key, val |-> val, msg |-> msg]

\* enum Reply (FindValueResult folded in); Option<Reply>::None is NoReply
Reply(op, nodes, val) == [op |-> op, nodes |-> nodes, val |-> val]

ReplyPing == Reply("Ping", <<>>, <<>>)

NoReply == Reply("None", <<>>, <<>>)

\* struct RpcMessage
RpcMessage(token, src, dst, kind, req, rep) ==
    [token |-> token, src |-> src, dst |-> dst, kind |-> kind, req |-> req, rep |-> rep]

VARIABLES
    routes,     \* node -> RoutingTable            (Node.routes, behind its mutex)
    tokens,     \* node -> set of fingerprints     (Node.broadcast_tokens)
    store,      \* node -> set of <<key, value>>   (Node.store)
    sink,       \* node -> payloads sent into Node.tx, in order
    tasks,      \* the live tokio tasks
    net,        \* datagrams in flight
    host,       \* node -> the server loop of its Rpc running, and
                \*         its channels: listed in Rpc.node_infos, request
                \*         handler loop running, receiver of Node.tx alive;
                \*         whether main.rs started it (test mode) or a service
    hist,       \* history: the relays each node has started, whether a call
                \* has ended without a reply, what lookup_nodes, put and get
                \* have returned: <<call, node, value>>, the panics:
                \* <<node, failed check>>
    mlog,       \* the Multicast requests handled: <<node, prefix, fed>>
    chan,       \* token -> the reply sink of that send_req call and its entry
                \*          in Rpc.pending, where the calls are followed item
                \*          by item (SpecRpc)
    app         \* the application above the nodes: the calls it still makes,
                \* one after the other, Subscriber.nodes as pairs <<address,
                \* node>>, and the nodes stop_subscription has dropped, each
                \* with the length of its sink at that moment; in SpecLocal
                \* the data structure that is operated on

vars == <<routes, tokens, store, sink, tasks, net, host, hist, mlog, chan, app>>

\* the nodes that run; a NodeInfo naming no running node is a departed peer
Live == DOMAIN routes

\* Node.node_info
Info(n) == routes[n].node_info

\* a task: `held` are the mutexes of its node it holds, `peer` the other end
\* of its RPC (the destination of a call, the source of a handled request),
\* `wait` the token whose outcome it awaits, `cont` where it resumes then
Task(tid, kind, node, pc) ==
    [tid |-> tid, kind |-> kind, node |-> node, pc |-> pc, held |-> {},
     req |-> Request("Ping", <<>>, <<>>, 0), peer |-> NoInfo, cand |-> NoInfo,
     wait |-> <<>>, rep |-> NoReply, cont |-> "", ncall |-> 0,
     queue |-> <<>>, reps |-> <<>>, parent |-> <<>>, got |-> {}, target |-> <<>>]

\* tokio::sync::Mutex: free when no task of the node holds it
MutexFree(n, m) == \A t \in tasks : t.node = n => m \notin t.held

\* the hosted node a datagram's dst names (Rpc::start_server, lines 107-111)
NodeAt(dst) ==
    {n \in Live : host[n].listed /\ Info(n).addr = dst.addr /\ Info(n).id = dst.id}

\* the server loop of the Rpc behind the socket the datagram goes to is
\* running (start_server lines 88-155); each node has a socket of its own
Served(d) == \E n \in Live : Info(n).addr = d.dst.addr /\ host[n].serving

\* a server that hands over whatever names a hosted node
AcceptedAnyNet(d) == Served(d) /\ NodeAt(d.dst) # {}

\* start_server lines 113-119: a node of that id is hosted, and the datagram
\* comes from its overlay
Accepted(d) ==
    /\ Served(d)
    /\ NodeAt(d.dst) # {}
    /\ \A n \in NodeAt(d.dst) : d.src.net_id = Info(n).net_id

Children(t) == {c \in tasks : c.parent = t.tid}

\* the positions at which a task acquires the routing-table mutex
RoutesLockPcs ==
    {"h_routes", "e_lock", "lock", "b_lock", "l_lock", "m_lock", "m_seq", "fv_routes"}

\* whether the task can take its next step: a mutex it asks for is free, the
\* tasks it joins have ended; a task at "wait" is resumed by its RPC's outcome
\* and a task at "sleep" by its timer
Ready(t) ==
    CASE t.pc \in RoutesLockPcs -> MutexFree(t.node, "routes")
      [] t.pc = "h_serve" ->
            CASE t.req.op \in {"Store", "FindValue"} /\ Len(t.req.key) = KeyLen ->
                     MutexFree(t.node, "store")
              [] t.req.op = "FindNode" /\ Len(t.req.key) = KeyLen ->
                     MutexFree(t.node, "routes")
              [] OTHER -> TRUE
      [] t.pc \in {"l_join", "m_join", "p_join", "v_join"} -> Children(t) = {}
      [] t.pc = "v_lock" -> /\ MutexFree(t.node, "routes")
                            /\ \E r \in hist.returned : r[1] = "put"
      [] t.pc \in {"wait", "sleep", "done"} -> FALSE
      [] OTHER -> TRUE

\* no datagram is in flight and no task can run: only a timer can go on.  A
\* datagram or a task's step takes far less than TIME_OUT (5 s), so the
\* deadline of a call passes only in such a state.
Quiet ==
    /\ net = {}
    /\ \A t \in tasks : ~Ready(t)

\* only the expiry sleeps are left: BROADCAST_TIME_OUT is 600 times TIME_OUT,
\* so a sleep of that length ends after every pending call has timed out
Idle ==
    /\ Quiet
    /\ \A t \in tasks : t.pc # "wait"

\* the tasks with t replaced by its next state, plus the tasks it spawned
Step(t, t2, spawned) == tasks' = ((tasks \ {t}) \cup {t2}) \cup spawned

\* the tasks with t ended, plus the tasks it spawned
End(t, spawned) == tasks' = (tasks \ {t}) \cup spawned

(***************************************************************************)
(* kad/rpc.rs, as the node's tasks see it                                  *)
(***************************************************************************)
\* Rpc::send_req: a fresh token, the pending entry, the datagram; the caller
\* then waits on the sink.  The token is named after the calling task.
SendReq(t) ==
    /\ t.pc = "send"
    /\ LET tok == t.tid \o <<0, t.ncall + 1>>
       IN  IF host[t.node].listed
           THEN /\ net' = net \cup
                      {RpcMessage(tok, Info(t.node), t.peer, "Request", t.req, NoReply)}
                /\ Step(t, [t EXCEPT !.pc = "wait", !.wait = tok, !.ncall = @ + 1], {})
                /\ UNCHANGED hist
           ELSE \* lines 226-229: src is not in node_infos, panic!("Invalid source
                \* node!"); the task that joins this one panics on its unwrap
                /\ tasks' = tasks \ ({t} \cup {q \in tasks : q.tid = t.parent})
                /\ hist' = [hist EXCEPT !.panics = @ \cup {<<t.node, "send_req">>}]
                /\ UNCHANGED net
    /\ UNCHANGED <<routes, tokens, store, sink, host, mlog, chan, app>>

\* the timeout task of send_req (lines 242-250): "no reply" into the sink,
\* the entry removed
Timeout(t) ==
    /\ t.pc = "wait" /\ Quiet
    /\ Step(t, [t EXCEPT !.pc = t.cont, !.wait = <<>>, !.rep = NoReply], {})
    /\ hist' = [hist EXCEPT !.unanswered = TRUE]
    /\ UNCHANGED <<routes, tokens, store, sink, net, host, mlog, chan, app>>

\* Rpc::start_server reads a Reply; Rpc::handle_rep hands it to the pending
\* sink of its token, or drops it as unsolicited
RecvReply(d) ==
    /\ d \in net /\ d.kind = "Reply" /\ Accepted(d)
    /\ net' = net \ {d}
    /\ LET w == {t \in tasks : t.pc = "wait" /\ t.wait = d.token}
       IN  tasks' = (tasks \ w) \cup
                    {[t EXCEPT !.pc = t.cont, !.wait = <<>>, !.rep = d.rep] : t \in w}
    /\ UNCHANGED <<routes, tokens, store, sink, host, hist, mlog, chan, app>>

\* Rpc::start_server reads a Request and sends it into the node's channel;
\* Node::start_req_handler receives it and spawns the task that handles it
RecvRequest(d) ==
    /\ d \in net /\ d.kind = "Request" /\ Accepted(d)
    /\ net' = net \ {d}
    /\ LET at == NodeAt(d.dst)
           \* the first entry of that id: of two nodes of one account the one
           \* started first, which the map of publishers holds
           n == CHOOSE n \in at : \A m \in at \ {n} : \E p \in app.publishers : p[2] = n
       IN  IF ~host[n].loop
           THEN \* send fails: node_infos.swap_remove(index)
                /\ host' = [host EXCEPT ![n].listed = FALSE]
                /\ UNCHANGED tasks
           ELSE IF ~host[n].open
           THEN \* self.tx.is_closed(): the handler loop breaks
                /\ host' = [host EXCEPT ![n].loop = FALSE]
                /\ UNCHANGED tasks
           ELSE /\ UNCHANGED host
                /\ tasks' = tasks \cup
                       {[Task(d.token, "handler", n, "h_routes") EXCEPT
                            !.req = d.req, !.peer = d.src]}
    /\ UNCHANGED <<routes, tokens, store, sink, hist, mlog, chan, app>>

\* a datagram that nobody reads (the peer has left, or its server loop has
\* ended), whose dst names no hosted node (lines 141-150) or that comes from
\* another overlay (lines 115-118).  When no node of that id is found and the
\* node list is empty, the server loop breaks (lines 146-147).
Drop(d) ==
    /\ d \in net /\ d.kind \in {"Request", "Reply"} /\ ~Accepted(d)
    /\ net' = net \ {d}
    /\ host' = [n \in Live |->
                  IF Served(d) /\ Info(n).addr = d.dst.addr /\ ~host[n].listed
                  THEN [host[n] EXCEPT !.serving = FALSE] ELSE host[n]]
    /\ UNCHANGED <<routes, tokens, store, sink, tasks, hist, mlog, chan, app>>

\* bytes that are no RpcMessage.  serde_json::from_str fails on text that is
\* not the JSON of an RpcMessage and the loop continues (lines 92-98);
\* str::from_utf8(..).unwrap() panics on bytes that are not UTF-8 (line 92),
\* which ends the server task
ReadGarbage(d) ==
    /\ d \in net /\ d.kind \in {"BadJson", "BadUtf8"}
    /\ net' = net \ {d}
    /\ host' = [n \in Live |->
                  IF d.kind = "BadUtf8" /\ Info(n).addr = d.dst.addr
                  THEN [host[n] EXCEPT !.serving = FALSE] ELSE host[n]]
    /\ UNCHANGED <<routes, tokens, store, sink, tasks, hist, mlog, chan, app>>

(***************************************************************************)
(* crypto/ed25519.rs, scaled down: keys, points and scalars have KeyLen    *)
(* bytes (32 in the code), the group of the base point is the integers     *)
(* modulo L_ORDER under addition with base point 1, and L_ORDER is 2^4     *)
(* below the largest number of KeyLen bytes, as L (about 2^252) is for 32  *)
(* bytes.  A point is written as the multiple of the base point it is.     *)
(***************************************************************************)
\* static L, the order of the base point
L_ORDER == 2^(8 * KeyLen - 4) - 3

\* h_int: SHA-512 of the bytes as an integer, here a fixed mixing of them
h_int(m) ==
    LET RECURSIVE go(_)
        go(i) == IF i > Len(m) THEN 7 ELSE (go(i + 1) * 31 + m[i] + 1) % 2039
    IN  go(1)

\* BigUint::from_bytes_le
from_bytes_le(b) ==
    LET RECURSIVE go(_)
        go(i) == IF i > Len(b) THEN 0 ELSE b[i] + 256 * go(i + 1)
    IN  go(1)

\* SecretKey::public_key: the secret scalar a, read off the hash of sk, times
\* the base point, encoded (Ed25519Point::encode: to_bytes_le, resized to the
\* full length)
public_key(sk) ==
    LET a == 1 + (h_int(<<1>> \o sk) % (L_ORDER - 1))
    IN  [i \in 1..KeyLen |-> (((a * 1) % L_ORDER) \div 256^(i - 1)) % 256]

\* SecretKey::sign: the signature R || S, or <<>> when the call panics.
\* BigUint::to_bytes_le yields the bytes of S without leading zeroes, and
\* try_into::<[u8; 32]>().unwrap() panics unless they are exactly 32.
sign(sk, message) ==
    LET s  == 1 + (h_int(<<1>> \o sk) % (L_ORDER - 1))
        r  == h_int((<<2>> \o sk) \o message)
        le(x) == [i \in 1..KeyLen |-> (x \div 256^(i - 1)) % 256]
        rr == le((r * 1) % L_ORDER)
        k  == h_int((rr \o public_key(sk)) \o message)
        ss == (r + k * s) % L_ORDER
    IN  IF ss < 256^(KeyLen - 1) THEN <<>> ELSE rr \o le(ss)

(***************************************************************************)
(* service/network.rs: the store predicates                                *)
(***************************************************************************)
\* service/mod.rs: TESTNET_USER_DHT, TESTNET_PUBSUB_DHT
USER_DHT == "test_user_dht"

PUBSUB_DHT == "test_pubsub_dht"

\* Address::from(PublicKey): blake2s(blake2s(sha3_512(sha3_512(pk)))), here a
\* fixed mixing of the key's bytes
derive_address(pk) == [i \in 1..Len(pk) |-> (pk[i] * 7 + 3 * i) % 256]

\* a predicate that compares the address and takes any key bytes
is_valid_any_key(data) ==
    IF Len(data) # 2 * KeyLen THEN FALSE
    ELSE SubSeq(data, 1, KeyLen) = derive_address(SubSeq(data, KeyLen + 1, 2 * KeyLen))

\* UserDHT::is_valid_addr_pubkey_pair, an address and a public key being
\* KeyLen bytes each (32 in the code)
is_valid_addr_pubkey_pair(data) ==
    IF Len(data) # 2 * KeyLen THEN FALSE
    ELSE LET pk == SubSeq(data, KeyLen + 1, 2 * KeyLen)
         IN  \* PublicKey::from_bytes: the bytes decode to a point
             IF from_bytes_le(pk) < L_ORDER
             THEN SubSeq(data, 1, KeyLen) = derive_address(pk)
             ELSE FALSE

\* UserDHT::get_pubkey lines 66-72, from what Node::get(addr) has returned:
\* the key bytes of a pair the predicate accepts
get_pubkey(got) ==
    IF got # None /\ is_valid_addr_pubkey_pair(got[1])
    THEN Some(SubSeq(got[1], KeyLen + 1, 2 * KeyLen))
    ELSE None

\* a predicate that accepts every value on every node
store_any(n, v) == TRUE

\* Node.store_predicate: UserDHT::start passes is_valid_addr_pubkey_pair,
\* the test mode of main.rs |_| true, Publisher::new and
\* Subscriber::subscribe |_| false
store_predicate(n, v) ==
    IF Info(n).net_id # USER_DHT THEN FALSE
    ELSE IF host[n].cli THEN TRUE
    ELSE is_valid_addr_pubkey_pair(v)

\* Key::to_hash: SHA3 of the key cut to the key's length, here a fixed
\* mixing of its bytes
to_hash(k) == [i \in 1..Len(k) |-> (k[i] * 5 + 17 * i) % 256]

\* HashMap::insert
MapInsert(m, k, v) == {p \in m : p[1] # k} \cup {<<k, v>>}

\* HashMap::get as Option
MapGet(m, k) == IF \E p \in m : p[1] = k THEN Some((CHOOSE p \in m : p[1] = k)[2]) ELSE None

(***************************************************************************)
(* kad/node.rs: Node::handle_req                                           *)
(***************************************************************************)
\* UnboundedSender::send into Node.tx: fails when the receiver is gone
Feed(n, msg) == IF host[n].open THEN [sink EXCEPT ![n] = Append(@, msg)] ELSE sink

\* req_handle.rep: the reply datagram, sent to the requester
ReplyTo(t, rep) ==
    RpcMessage(t.tid, Info(t.node), t.peer, "Reply", t.req, rep)

\* lines 127-141: the routes are updated from src under the mutex; a
\* displaced head e gets a task that pings it
HandleRoutes(t) ==
    /\ t.kind = "handler" /\ t.pc = "h_routes" /\ Ready(t)
    /\ IF Len(t.peer.id) # routes[t.node].key_len
       THEN \* routing.rs line 38: assert_eq!(self.key_len, node_info.id.len())
            \* fails, the handler task panics before it has replied
            /\ End(t, {})
            /\ hist' = [hist EXCEPT !.panics = @ \cup {<<t.node, "update">>}]
            /\ UNCHANGED routes
       ELSE LET u == RT_update(routes[t.node], t.peer)
                evict == IF u.ret = None THEN {}
                         ELSE {[Task(Append(t.tid, 1), "evict", t.node, "e_lock") EXCEPT
                                   !.peer = u.ret[1], !.cand = t.peer]}
            IN  /\ routes' = [routes EXCEPT ![t.node] = u.rt]
                /\ Step(t, [t EXCEPT !.pc = "h_serve"], evict)
                /\ UNCHANGED hist
    /\ UNCHANGED <<tokens, store, sink, net, host, mlog, chan, app>>

\* lines 143-266 but FindValue: the request is served and the reply sent
HandleServe(t) ==
    /\ t.kind = "handler" /\ t.pc = "h_serve" /\ Ready(t)
    /\ t.req.op # "FindValue" \/ Len(t.req.key) # KeyLen
    /\ LET n == t.node
           r == t.req
           flood == r.op \in {"Broadcast", "Multicast"}
           is_relay == flood /\ KeyHash(r.msg) \notin tokens[n]
           fed == \/ r.op \in {"Unicast", "Broadcast"}
                  \/ r.op = "Multicast" /\ is_prefix(r.key, Info(n).id)
           relay == [Task(Append(t.tid, 2),
                          IF r.op = "Broadcast" THEN "broadcast" ELSE "multicast",
                          n, "token") EXCEPT !.req = r]
           expiry == [Task(Append(t.tid, 3), "expiry", n, "sleep") EXCEPT !.req = r]
           rep == CASE r.op = "FindNode" ->
                         Reply("FindNode",
                               IF Len(r.key) # KeyLen THEN <<>>
                               ELSE RT_closest_nodes(routes[n], r.key, K_PARAM), <<>>)
                    [] r.op = "FindValue" -> Reply("FindValue", <<>>, <<>>)
                    [] OTHER -> ReplyPing
       IN  /\ store' = IF r.op = "Store" /\ Len(r.key) = KeyLen /\ store_predicate(n, r.val)
                       THEN [store EXCEPT ![n] = MapInsert(@, r.key, r.val)]
                       ELSE store
           /\ sink' = IF fed THEN Feed(n, r.msg) ELSE sink
           /\ mlog' = IF r.op = "Multicast"
                      THEN mlog \cup {<<n, r.key, fed /\ host[n].open>>} ELSE mlog
           /\ hist' = IF is_relay THEN [hist EXCEPT !.relays[n] = @ + 1] ELSE hist
           /\ End(t, IF is_relay THEN {relay, expiry} ELSE {})
           /\ net' = net \cup {ReplyTo(t, rep)}
    /\ UNCHANGED <<routes, tokens, host, chan, app>>

\* lines 166-178: FindValue takes the store mutex; a hit is answered at once,
\* a miss goes on to the routes with the store still locked
HandleFindValue(t) ==
    /\ t.kind = "handler" /\ t.pc = "h_serve" /\ Ready(t)
    /\ t.req.op = "FindValue" /\ Len(t.req.key) = KeyLen
    /\ LET v == MapGet(store[t.node], t.req.key)
       IN  IF v # None
           THEN /\ End(t, {})
                /\ net' = net \cup {ReplyTo(t, Reply("FindValue", <<>>, v))}
           ELSE /\ Step(t, [t EXCEPT !.pc = "fv_routes", !.held = {"store"}], {})
                /\ UNCHANGED net
    /\ UNCHANGED <<routes, tokens, store, sink, host, hist, mlog, chan, app>>

\* lines 178-188: the closest nodes to hash(k), then both guards dropped
HandleFindValueNodes(t) ==
    /\ t.kind = "handler" /\ t.pc = "fv_routes" /\ Ready(t)
    /\ End(t, {})
    /\ net' = net \cup
          {ReplyTo(t, Reply("FindValue",
                            RT_closest_nodes(routes[t.node], to_hash(t.req.key), K_PARAM),
                            None))}
    /\ UNCHANGED <<routes, tokens, store, sink, host, hist, mlog, chan, app>>

(***************************************************************************)
(* kad/node.rs: ping, store, find_node, find_value, unicast                *)
(***************************************************************************)
\* the Reply variant each of the five calls matches on
Expected(op) ==
    CASE op = "FindNode" -> "FindNode"
      [] op = "FindValue" -> "FindValue"
      [] OTHER -> "Ping"

\* a call made by a spawned task hands its outcome to the task that joins it
Joined(c) ==
    {[p EXCEPT !.got = @ \cup {<<c.peer, c.rep>>}] : p \in {q \in tasks : q.tid = c.parent}}

\* Node::ping and its four siblings after the outcome has arrived (lines
\* 351-358): the routes mutex is taken, dst is updated on the expected reply
\* and removed otherwise.  For the eviction task of handle_req the rest of
\* its block follows (lines 134-138).
CallLock(t) ==
    /\ t.pc = "lock" /\ Ready(t)
    /\ LET n == t.node
           good == t.rep.op = Expected(t.req.op)
           rt1 == IF good THEN RT_update(routes[n], t.peer).rt
                  ELSE RT_remove(routes[n], t.peer)
           rt2 == IF t.kind = "evict" /\ ~good
                  THEN RT_update(RT_remove(rt1, t.peer), t.cand).rt
                  ELSE rt1
       IN  /\ routes' = [routes EXCEPT ![n] = rt2]
           /\ tasks' = (tasks \ ({t} \cup {q \in tasks : q.tid = t.parent})) \cup Joined(t)
           \* get, lines 644-649: its store has returned, and so does get, on
           \* a node of UserDHT::start to get_pubkey
           /\ hist' = IF t.kind = "get"
                      THEN [hist EXCEPT !.returned =
                              (@ \cup {<<"get", n, Some(t.req.val)>>}) \cup
                                 (IF host[n].cli THEN {}
                                  ELSE {<<"get_pubkey", n,
                                          <<t.req.key, get_pubkey(Some(t.req.val))>>>>})]
                      ELSE hist
    /\ UNCHANGED <<tokens, store, sink, net, host, mlog, chan, app>>

\* the eviction task spawned by handle_req, line 132: it takes the routes
\* mutex and keeps it while it pings e
EvictLock(t) ==
    /\ t.kind = "evict" /\ t.pc = "e_lock" /\ Ready(t)
    /\ Step(t, [t EXCEPT !.pc = "send", !.held = {"routes"}, !.cont = "lock",
                         !.req = Request("Ping", <<>>, <<>>, 0)], {})
    /\ UNCHANGED <<routes, tokens, store, sink, net, host, hist, mlog, chan, app>>

(***************************************************************************)
(* kad/node.rs: Node::broadcast and the expiry of a fingerprint            *)
(***************************************************************************)
\* lines 430-432 and 468-470: the fingerprint goes into broadcast_tokens
InsertToken(t) ==
    /\ t.kind \in {"broadcast", "multicast"} /\ t.pc = "token"
    /\ tokens' = [tokens EXCEPT ![t.node] = @ \cup {KeyHash(t.req.msg)}]
    /\ Step(t, [t EXCEPT !.pc = IF t.kind = "broadcast" THEN "b_lock" ELSE "l_lock",
                         !.target = resize(t.req.key, KeyLen)], {})
    /\ UNCHANGED <<routes, store, sink, net, host, hist, mlog, chan, app>>

RECURSIVE ApplyReps(_, _)
\* lines 454-461: every answered peer is updated, every other one removed
ApplyReps(rt, reps) ==
    IF reps = <<>> THEN rt
    ELSE ApplyReps(IF Head(reps)[1].op = "Ping" THEN RT_update(rt, Head(reps)[2]).rt
                   ELSE RT_remove(rt, Head(reps)[2]),
                   Tail(reps))

\* line 437-441: the routes mutex is taken and kept; every resident but the
\* node itself is a destination
BroadcastLock(t) ==
    /\ t.kind = "broadcast" /\ t.pc = "b_lock" /\ Ready(t)
    /\ LET NotSelf(d) == d # Info(t.node)
           q == SelectSeq(Flatten(routes[t.node], 0), NotSelf)
       IN  IF q = <<>> THEN End(t, {})
           ELSE Step(t, [t EXCEPT !.pc = "send", !.held = {"routes"}, !.queue = q,
                                  !.peer = q[1], !.cont = "b_next"], {})
    /\ UNCHANGED <<routes, tokens, store, sink, net, host, hist, mlog, chan, app>>

\* lines 443-462: the outcome is kept, the next destination is sent to; after
\* the last one the outcomes are applied and the mutex released
BroadcastNext(t) ==
    /\ t.kind = "broadcast" /\ t.pc = "b_next"
    /\ LET reps == Append(t.reps, <<t.rep, t.peer>>)
           rest == Tail(t.queue)
       IN  IF rest # <<>>
           THEN /\ Step(t, [t EXCEPT !.pc = "send", !.reps = reps, !.queue = rest,
                                     !.peer = rest[1]], {})
                /\ UNCHANGED routes
           ELSE /\ routes' = [routes EXCEPT ![t.node] = ApplyReps(routes[t.node], reps)]
                /\ End(t, {})
    /\ UNCHANGED <<tokens, store, sink, net, host, hist, mlog, chan, app>>

\* lines 217-223 and 251-257: BROADCAST_TIME_OUT after the relay started the
\* fingerprint is removed
Expire(t) ==
    /\ t.kind = "expiry" /\ t.pc = "sleep" /\ Idle
    /\ tokens' = [tokens EXCEPT ![t.node] = @ \ {KeyHash(t.req.msg)}]
    /\ End(t, {})
    /\ UNCHANGED <<routes, store, sink, net, host, hist, mlog, chan, app>>

(***************************************************************************)
(* kad/node.rs: Node::lookup_nodes and Node::multicast                     *)
(***************************************************************************)
\* a task spawned by t that calls dst and hands the outcome to t
Child(t, i, kind, req, dst, cont) ==
    [Task(Append(t.tid, i), kind, t.node, "send") EXCEPT
        !.req = req, !.peer = dst, !.cont = cont, !.parent = t.tid]

\* lookup_nodes lines 533-554: the K_PARAM closest residents are taken under
\* the routes mutex, and a find_node task is spawned for each of them
LookupLock(t) ==
    /\ t.pc = "l_lock" /\ Ready(t)
    /\ LET q == RT_closest_nodes(routes[t.node], t.target, K_PARAM)
           find == Request("FindNode", t.target, <<>>, 0)
       IN  Step(t, [t EXCEPT !.pc = "l_join", !.queue = q],
                {Child(t, i, "find_node", find, q[i][1], "lock") : i \in 1..Len(q)})
    /\ UNCHANGED <<routes, tokens, store, sink, net, host, hist, mlog, chan, app>>

\* lookup_nodes lines 555-567: the queried residents that answered, sorted
\* by distance and cut to K_PARAM; the entries of the replies are not read
Answered(t, op) ==
    LET Ok(q) == \E g \in t.got : g[1] = q[1] /\ g[2].op = op
    IN  Truncate(SortByDist(SelectSeq(t.queue, Ok)), K_PARAM)

\* Vec::iter().rev()
Reverse(s) == [i \in 1..Len(s) |-> s[Len(s) + 1 - i]]

\* multicast lines 476-512, after lookup_nodes has returned: the candidates
\* inside the subtree each get a task that sends to them; if there is none,
\* the candidates are tried one after the other, the farthest first
MulticastPick(t) ==
    /\ t.kind = "multicast" /\ t.pc = "l_join" /\ Ready(t)
    /\ LET cands == Answered(t, "FindNode")
           Hit(c) == zeroes_in_prefix(c[2]) >= Len(t.req.key) * 8
           hits == SelectSeq(cands, Hit)
           rev == Reverse(cands)
       IN  IF hits # <<>>
           THEN Step(t, [t EXCEPT !.pc = "m_lock", !.queue = hits, !.got = {}],
                     {Child(t, K_PARAM + i, "mc_raw", t.req, hits[i][1], "ret") :
                         i \in 1..Len(hits)})
           ELSE IF rev # <<>>
           THEN Step(t, [t EXCEPT !.pc = "send", !.queue = rev, !.peer = rev[1][1],
                                  !.cont = "m_seq"], {})
           ELSE End(t, {})
    /\ UNCHANGED <<routes, tokens, store, sink, net, host, hist, mlog, chan, app>>

\* multicast lines 489-496: the outcome of one candidate; an acknowledgement
\* ends the walk, anything else removes the candidate and tries the next
MulticastSeq(t) ==
    /\ t.kind = "multicast" /\ t.pc = "m_seq" /\ Ready(t)
    /\ LET rest == Tail(t.queue)
       IN  IF t.rep.op = "Ping"
           THEN /\ routes' = [routes EXCEPT ![t.node] = RT_update(routes[t.node], t.peer).rt]
                /\ End(t, {})
           ELSE /\ routes' = [routes EXCEPT ![t.node] = RT_remove(routes[t.node], t.peer)]
                /\ IF rest = <<>> THEN End(t, {})
                   ELSE Step(t, [t EXCEPT !.pc = "send", !.queue = rest,
                                          !.peer = rest[1][1]], {})
    /\ UNCHANGED <<tokens, store, sink, net, host, hist, mlog, chan, app>>

\* multicast lines 505-511: a spawned task returns the outcome of its
\* multicast_raw
RawReturn(t) ==
    /\ t.kind = "mc_raw" /\ t.pc = "ret"
    /\ tasks' = (tasks \ ({t} \cup {q \in tasks : q.tid = t.parent})) \cup Joined(t)
    /\ UNCHANGED <<routes, tokens, store, sink, net, host, hist, mlog, chan, app>>

\* multicast line 513: the routes mutex is taken before the tasks are joined
MulticastLock(t) ==
    /\ t.kind = "multicast" /\ t.pc = "m_lock" /\ Ready(t)
    /\ Step(t, [t EXCEPT !.pc = "m_join", !.held = {"routes"}], {})
    /\ UNCHANGED <<routes, tokens, store, sink, net, host, hist, mlog, chan, app>>

\* multicast lines 514-522: every task is joined with the mutex held, and
\* its destination updated or removed
MulticastJoin(t) ==
    /\ t.kind = "multicast" /\ t.pc = "m_join" /\ Ready(t)
    /\ LET RepOf(dst) == (CHOOSE g \in t.got : g[1] = dst)[2]
           reps == [i \in 1..Len(t.queue) |-> <<RepOf(t.queue[i][1]), t.queue[i][1]>>]
       IN  routes' = [routes EXCEPT ![t.node] = ApplyReps(routes[t.node], reps)]
    /\ End(t, {})
    /\ UNCHANGED <<tokens, store, sink, net, host, hist, mlog, chan, app>>

(***************************************************************************)
(* kad/node.rs: lookup_nodes as a call of its own, put, lookup_value, get  *)
(***************************************************************************)
\* what a call has returned to the application
Return(call, n, value) == [hist EXCEPT !.returned = @ \cup {<<call, n, value>>}]

\* lookup_nodes lines 555-567, called by the application
LookupReturn(t) ==
    /\ t.kind = "lookup" /\ t.pc = "l_join" /\ Ready(t)
    /\ LET ret == Answered(t, "FindNode")
       IN  hist' = Return("lookup_nodes", t.node, [i \in 1..Len(ret) |-> ret[i][1]])
    /\ End(t, {})
    /\ UNCHANGED <<routes, tokens, store, sink, net, host, mlog, chan, app>>

\* put lines 623-634, after lookup_nodes(k.to_hash()) has returned: a task
\* per candidate that stores (k, v) on it
PutStore(t) ==
    /\ t.kind = "put" /\ t.pc = "l_join" /\ Ready(t)
    /\ LET cands == Answered(t, "FindNode")
       IN  Step(t, [t EXCEPT !.pc = "p_join", !.queue = cands, !.got = {}],
                {Child(t, K_PARAM + i, "store", t.req, cands[i][1], "lock") :
                    i \in 1..Len(cands)})
    /\ UNCHANGED <<routes, tokens, store, sink, net, host, hist, mlog, chan, app>>

\* put lines 635-637: every store task is joined, put returns
PutJoin(t) ==
    /\ t.kind = "put" /\ t.pc = "p_join" /\ Ready(t)
    /\ hist' = Return("put", t.node, None)
    /\ End(t, {})
    /\ UNCHANGED <<routes, tokens, store, sink, net, host, mlog, chan, app>>

\* lookup_value lines 571-595: the K_PARAM closest residents to hash(k) each
\* get a find_value task.  The application calls get once put has returned.
LookupValueLock(t) ==
    /\ t.kind = "get" /\ t.pc = "v_lock" /\ Ready(t)
    /\ LET q == RT_closest_nodes(routes[t.node], t.target, K_PARAM)
       IN  Step(t, [t EXCEPT !.pc = "v_join", !.queue = q],
                {Child(t, i, "find_value", t.req, q[i][1], "lock") : i \in 1..Len(q)})
    /\ UNCHANGED <<routes, tokens, store, sink, net, host, hist, mlog, chan, app>>

\* lookup_value lines 596-619 and get lines 641-652.  The results are read
\* in the order the BinaryHeap was drained, which the code does not fix: the
\* first value in that order is returned, with the residents that answered
\* Nodes before it; get stores the value on the last of these, or on itself.
GetReturn(t) ==
    /\ t.kind = "get" /\ t.pc = "v_join" /\ Ready(t)
    /\ LET vals == {g \in t.got : g[2].op = "FindValue" /\ g[2].val # None}
           nodes == {g[1] : g \in {h \in t.got : h[2].op = "FindValue" /\ h[2].val = None}}
       IN  IF vals = {}
           THEN /\ hist' = [hist EXCEPT !.returned =
                              (@ \cup {<<"get", t.node, None>>}) \cup
                                 (IF host[t.node].cli THEN {}
                                  ELSE {<<"get_pubkey", t.node,
                                          <<t.req.key, get_pubkey(None)>>>>})]
                /\ End(t, {})
           ELSE /\ \E g \in vals, before \in SUBSET nodes :
                      LET In(q) == q[1] \in before
                          ret == Truncate(SortByDist(SelectSeq(t.queue, In)), K_PARAM)
                          v == g[2].val[1]
                      IN  Step(t, [t EXCEPT !.pc = "send", !.cont = "lock", !.got = {},
                                      !.req = Request("Store", t.req.key, v, 0),
                                      !.peer = IF ret = <<>> THEN Info(t.node)
                                               ELSE ret[Len(ret)][1]], {})
                /\ UNCHANGED hist
    /\ UNCHANGED <<routes, tokens, store, sink, net, host, mlog, chan, app>>

(***************************************************************************)
(* kad/rpc.rs item by item: the channel send_req returns, its sender in    *)
(* Rpc.pending, the timeout task and handle_rep run as steps of their own  *)
(***************************************************************************)
\* mpsc::unbounded_channel with the entry of Rpc.pending of node n's Rpc:
\* `items` is what has been sent into the channel, `alive` whether the
\* receiver still exists, `token` the key of the entry.  A call is named
\* after the calling task.
Channel(n, tok) ==
    [items |-> <<>>, alive |-> TRUE, pending |-> TRUE, rpc |-> n, token |-> tok]

\* Key::random(TOKEN_KEY_LEN): the tokens that can be drawn
Tokens == {<<100 + i>> : i \in 1..TokenSpace}

\* the calls whose entry is in the pending table of n's Rpc under tok
Pending(n, tok) ==
    {c \in DOMAIN chan : chan[c].pending /\ chan[c].rpc = n /\ chan[c].token = tok}

\* the first draw taken whatever the pending table holds
AnyTokens(n) == Tokens

\* send_req lines 219-222, under the lock of Rpc.pending: tokens are drawn
\* until one is not a key of the table
FreshTokens(n) == {tok \in Tokens : Pending(n, tok) = {}}

\* HashMap::remove(&token), and what HashMap::insert does to an entry that
\* has the key already
Unpend(n, tok) ==
    [c \in DOMAIN chan |->
        IF c \in Pending(n, tok) THEN [chan[c] EXCEPT !.pending = FALSE] ELSE chan[c]]

\* UnboundedSender::send: the item is queued unless the receiver is gone
ChanSend(c, item) ==
    IF chan[c].alive THEN [chan EXCEPT ![c].items = Append(@, item)] ELSE chan

\* Rpc::send_req lines 217-251: the channel, the pending entry, the
\* datagram, the timeout task; the receiver goes to the caller
RpcSendReq(t) ==
    /\ t.pc = "r_send"
    /\ \E tok \in FreshTokens(t.node) :
          LET c == t.tid \o <<0, t.ncall + 1>>
              timer == [Task(Append(c, 0), "timer", t.node, "t_sleep") EXCEPT !.wait = c]
          IN  /\ chan' = Unpend(t.node, tok) @@ (c :> Channel(t.node, tok))
              /\ net' = net \cup
                    {RpcMessage(tok, Info(t.node), t.peer, "Request", t.req, NoReply)}
              /\ Step(t, [t EXCEPT !.pc = "r_recv", !.wait = c, !.ncall = @ + 1], {timer})
    /\ UNCHANGED <<routes, tokens, store, sink, host, hist, mlog, app>>

\* the timeout task, lines 243-244: TIME_OUT has passed, None is sent; the
\* task goes on to the pending map only if the send succeeded
RpcTimeout(t) ==
    /\ t.kind = "timer" /\ t.pc = "t_sleep"
    /\ chan' = ChanSend(t.wait, NoReply)
    /\ IF chan[t.wait].alive THEN Step(t, [t EXCEPT !.pc = "t_remove"], {}) ELSE End(t, {})
    /\ UNCHANGED <<routes, tokens, store, sink, net, host, hist, mlog, app>>

\* the timeout task, lines 245-248: the entry of its token is removed under
\* the lock
RpcForget(t) ==
    /\ t.kind = "timer" /\ t.pc = "t_remove"
    /\ chan' = Unpend(t.node, chan[t.wait].token)
    /\ End(t, {})
    /\ UNCHANGED <<routes, tokens, store, sink, net, host, hist, mlog, app>>

\* Rpc::handle_rep, under the lock of Rpc.pending: the reply goes to the
\* sender of its token, and the entry is removed if the send succeeded; a
\* reply whose token is not pending is dropped
RpcHandleRep(d) ==
    /\ d \in net /\ d.kind = "Reply" /\ Accepted(d)
    /\ net' = net \ {d}
    /\ LET hit == UNION {Pending(n, d.token) : n \in NodeAt(d.dst)}
       IN  chan' = IF hit = {} THEN chan
                   ELSE LET c == CHOOSE c \in hit : TRUE
                        IN  [ChanSend(c, d.rep) EXCEPT ![c].pending = ~chan[c].alive]
    /\ UNCHANGED <<routes, tokens, store, sink, tasks, host, hist, mlog, app>>

\* the caller, node.rs lines 350-355: recv() yields the first item of the
\* channel, and the receiver, a temporary, is dropped
RpcRecv(t) ==
    /\ t.pc = "r_recv" /\ chan[t.wait].items # <<>>
    /\ chan' = [chan EXCEPT ![t.wait].alive = FALSE]
    /\ Step(t, [t EXCEPT !.pc = t.cont, !.rep = chan[t.wait].items[1]], {})
    /\ UNCHANGED <<routes, tokens, store, sink, net, host, hist, mlog, app>>

\* the caller gives up before an item has arrived: its future is dropped,
\* and the receiver that send_req returned with it
RpcDropRx(t) ==
    /\ t.pc = "r_recv" /\ chan[t.wait].items = <<>>
    /\ chan' = [chan EXCEPT ![t.wait].alive = FALSE]
    /\ End(t, {})
    /\ UNCHANGED <<routes, tokens, store, sink, net, host, hist, mlog, app>>

(***************************************************************************)
(* The networks the model starts from.  A node is named by its socket      *)
(* address; its state is the state after Node::start has returned.         *)
(***************************************************************************)
\* an id of KeyLen bytes: a prefix of PrefixLen bytes and the rest
MkId(a, b) == resize(<<a>>, PrefixLen) \o resize(<<b>>, KeyLen - PrefixLen)

RECURSIVE RT_with(_, _)
\* a table that has seen the peers of `seen`, oldest first
RT_with(rt, seen) ==
    IF seen = <<>> THEN rt ELSE RT_with(RT_update(rt, Head(seen)).rt, Tail(seen))

\* the payload that is broadcast or multicast
Payload == 1

\* Node A and a full bucket: H1..H8 and the new peer B fall into the same
\* bucket of A, T into another one
PubSub(name, a, b) == NodeInfo(MkId(a, b), name, PUBSUB_DHT)

InfoA == PubSub("A", 0, 0)

InfoB == PubSub("B", 200, 0)

InfoT == PubSub("T", 1, 0)

HNames == <<"H1", "H2", "H3", "H4", "H5", "H6", "H7", "H8">>

InfoH == [i \in 1..K_PARAM |-> PubSub(HNames[i], 128 + i, 0)]

\* the state of freshly started nodes with the given routing tables and the
\* datagrams that are on their way to them; the nodes of svc were started by UserDHT::start, which drops the receiver of
\* Node.tx when it returns (network.rs line 23), the other nodes of the user
\* DHT by the test mode of main.rs, which keeps it (main.rs line 336)
Started(rts, svc, arriving, calls) ==
    /\ routes = rts
    /\ tokens = [n \in DOMAIN rts |-> {}]
    /\ store = [n \in DOMAIN rts |-> {}]
    /\ sink = [n \in DOMAIN rts |-> <<>>]
    /\ host = [n \in DOMAIN rts |->
                  [serving |-> TRUE, listed |-> TRUE, loop |-> TRUE, open |-> n \notin svc,
                   cli |-> Info(n).net_id = USER_DHT /\ n \notin svc]]
    /\ hist = [relays |-> [n \in DOMAIN rts |-> 0], unanswered |-> FALSE,
               returned |-> {}, panics |-> {}]
    /\ net = arriving
    /\ mlog = {}
    /\ chan = <<>>
    /\ app = [calls |-> calls, nodes |-> {}, dropped |-> {}, publishers |-> {}]

Fresh(rts) == Started(rts, {}, {}, <<>>)

\* A, B and T run, and so does the head H1 of the full bucket unless it has
\* left as well; H2..H8 are entries of peers that have left the network
FullBucketNet(h1runs) ==
    LET rtA == RT_with(RT_new(InfoA, KeyLen), InfoH \o <<InfoT>>)
        base == ("A" :> rtA) @@ ("B" :> RT_with(RT_new(InfoB, KeyLen), <<InfoA>>))
                  @@ ("T" :> RT_new(InfoT, KeyLen))
    IN  IF h1runs THEN base @@ ("H1" :> RT_new(InfoH[1], KeyLen)) ELSE base

\* Node::ping(dst) called on node n
PingCall(n, dst) ==
    [Task(<<1>>, "ping", n, "send") EXCEPT !.peer = dst, !.cont = "lock"]

\* Node::broadcast(msg) called on node n
BroadcastCall(n, msg) ==
    [Task(<<1>>, "broadcast", n, "token") EXCEPT !.req = Request("Broadcast", <<>>, <<>>, msg)]

\* B, unknown to A, pings A or broadcasts through it
InitFullBucket ==
    /\ \E h1runs \in BOOLEAN : Fresh(FullBucketNet(h1runs))
    /\ tasks \in {{PingCall("B", InfoA)}, {BroadcastCall("B", Payload)}}

\* A, B and T know one another
TriangleNet ==
    ("A" :> RT_with(RT_new(InfoA, KeyLen), <<InfoB, InfoT>>))
      @@ ("B" :> RT_with(RT_new(InfoB, KeyLen), <<InfoA, InfoT>>))
      @@ ("T" :> RT_with(RT_new(InfoT, KeyLen), <<InfoA, InfoB>>))

\* A broadcasts to its two peers, each of which relays to the other
InitTriangle ==
    /\ Fresh(TriangleNet)
    /\ tasks = {BroadcastCall("A", Payload)}

\* the address that is published to, as a key of PrefixLen bytes
Prefix == resize(<<7>>, PrefixLen)

\* Publisher::new: the publisher's id is the address, zero-filled
InfoP == PubSub("P", 7, 0)

\* Subscriber::subscribe: the id is the address followed by random bytes
InfoS == PubSub("S", 7, 5)

\* two nodes outside the subtree of Prefix: the originator O, which is the
\* farther or the nearer of the two to the subtree, and X
InfoO(far) == IF far THEN PubSub("O", 5, 1) ELSE PubSub("O", 6, 1)

InfoX(far) == IF far THEN PubSub("X", 6, 1) ELSE PubSub("X", 5, 1)

\* Node::multicast(prefix, msg) called on node n (Publisher::publish)
MulticastCall(n, prefix, msg) ==
    [Task(<<1>>, "multicast", n, "token") EXCEPT
        !.req = Request("Multicast", prefix, <<>>, msg)]

\* the publisher and one subscriber of its address, knowing each other
InitPubSub ==
    /\ Fresh(("P" :> RT_with(RT_new(InfoP, KeyLen), <<InfoS>>))
               @@ ("S" :> RT_with(RT_new(InfoS, KeyLen), <<InfoP>>)))
    /\ tasks = {MulticastCall("P", Prefix, Payload)}

\* O multicasts from outside the subtree: it knows X, which knows S
OutsideNet(far) ==
    ("O" :> RT_with(RT_new(InfoO(far), KeyLen), <<InfoX(far)>>))
      @@ ("X" :> RT_with(RT_new(InfoX(far), KeyLen), <<InfoO(far), InfoS>>))
      @@ ("S" :> RT_with(RT_new(InfoS, KeyLen), <<InfoX(far)>>))

InitOutside ==
    /\ \E far \in BOOLEAN : Fresh(OutsideNet(far))
    /\ tasks = {MulticastCall("O", Prefix, Payload)}

\* Node::lookup_nodes(id) called on node n
LookupCall(n, id) == [Task(<<1>>, "lookup", n, "l_lock") EXCEPT !.target = id]

\* O looks up the id of S, which X knows and O does not; or A, which knows
\* B, T and the departed H1, looks up the id of T
InitLookup ==
    \/ /\ \E far \in BOOLEAN : Fresh(OutsideNet(far))
       /\ tasks = {LookupCall("O", InfoS.id)}
    \/ /\ Fresh([TriangleNet EXCEPT !["A"] = RT_with(@, <<InfoH[1]>>)])
       /\ tasks = {LookupCall("A", InfoT.id)}

User(name, a, b) == NodeInfo(MkId(a, b), name, USER_DHT)

InfoU == User("U", 10, 0)

InfoW == User("W", 20, 0)

InfoG == User("G", 30, 0)

\* a public key, and the pair UserDHT::register_pubkey puts under the address
PubKey == MkId(3, 4)

AddrKeyPair == derive_address(PubKey) \o PubKey

\* U and W know each other, G knows W
UserNet ==
    ("U" :> RT_with(RT_new(InfoU, KeyLen), <<InfoW>>))
      @@ ("W" :> RT_with(RT_new(InfoW, KeyLen), <<InfoU>>))
      @@ ("G" :> RT_with(RT_new(InfoG, KeyLen), <<InfoW>>))

\* Node::put(k, v) called on node n
PutCall(n, k, v) ==
    [Task(<<1>>, "put", n, "l_lock") EXCEPT
        !.req = Request("Store", k, v, 0), !.target = to_hash(k)]

\* Node::get(k) called on node n
GetCall(n, k) ==
    [Task(<<2>>, "get", n, "v_lock") EXCEPT
        !.req = Request("FindValue", k, <<>>, 0), !.target = to_hash(k)]

\* U registers a public key, then G asks for it; or W, which knows nobody
\* yet and so keeps the key to itself, registers it, and G knows W and U; or
\* the pair lies under another address
InitUserDHT ==
    \/ /\ \E svc \in SUBSET {"U", "W", "G"} : Started(UserNet, svc, {}, <<>>)
       /\ tasks = {PutCall("U", derive_address(PubKey), AddrKeyPair),
                   GetCall("G", derive_address(PubKey))}
    \/ /\ Started([UserNet EXCEPT !["W"] = RT_new(InfoW, KeyLen),
                                   !["G"] = RT_with(@, <<InfoU>>)], {}, {}, <<>>)
       /\ tasks = {PutCall("W", derive_address(PubKey), AddrKeyPair),
                   GetCall("G", derive_address(PubKey))}
    \* U has put the pair under an address that is not the key's, and G,
    \* started by UserDHT::start, asks for the key of that address
    \/ /\ Started(UserNet, {"G"}, {}, <<>>)
       /\ LET addr == [derive_address(PubKey) EXCEPT ![1] = (@ + 1) % 256]
          IN  tasks = {PutCall("U", addr, AddrKeyPair), GetCall("G", addr)}

\* A knows B; it pings B's id at an address B has left (main.rs, command
\* "p": the address and the id come from the command line)
InitStaleAddr ==
    /\ Fresh(TriangleNet)
    /\ tasks = {PingCall("A", [InfoB EXCEPT !.addr = "Z"])}

\* datagrams from the publisher P, of the pubsub overlay, to the user-DHT
\* node W: a Broadcast, and a reply that carries the token of W's call
ForeignDatagrams ==
    {RpcMessage(<<9>>, InfoP, InfoW, "Request", Request("Broadcast", <<>>, <<>>, Payload),
                NoReply),
     RpcMessage(<<1, 0, 1>>, InfoP, InfoW, "Reply", Request("Ping", <<>>, <<>>, 0),
                ReplyPing)}

\* W, started by main.rs, pings U while the datagrams of P arrive
InitForeign ==
    /\ Started(("P" :> RT_new(InfoP, KeyLen))
                 @@ ("U" :> RT_new(InfoU, KeyLen))
                 @@ ("W" :> RT_new(InfoW, KeyLen)), {}, ForeignDatagrams, <<>>)
    /\ tasks = {PingCall("W", InfoU)}

\* what anybody can send to B's socket: bytes that are no RpcMessage, and
\* a Ping whose src.id has one byte instead of KeyLen
Garbage(kind) ==
    RpcMessage(<<9>>, NodeInfo(<<1>>, "Z", PUBSUB_DHT), InfoB, kind,
               Request("Ping", <<>>, <<>>, 0), NoReply)

\* A pings B while such datagrams arrive at B's socket
InitGarbage ==
    /\ \E bad \in (SUBSET {Garbage("BadJson"), Garbage("BadUtf8"), Garbage("Request")})
                      \ {{}} :
          Started(("A" :> RT_with(RT_new(InfoA, KeyLen), <<InfoB>>))
                    @@ ("B" :> RT_new(InfoB, KeyLen)), {}, bad, <<>>)
    /\ tasks = {PingCall("A", InfoB)}

\* G was started by UserDHT::start, the receiver of its Node.tx is gone; W
\* pings it twice, and G pings W
InitDeadSink ==
    /\ Started(("W" :> RT_with(RT_new(InfoW, KeyLen), <<InfoG>>))
                 @@ ("G" :> RT_with(RT_new(InfoG, KeyLen), <<InfoW>>)), {"G"}, {}, <<>>)
    /\ tasks = {PingCall("W", InfoG),
                [PingCall("W", InfoG) EXCEPT !.tid = <<2>>],
                [PingCall("G", InfoW) EXCEPT !.tid = <<3>>]}

\* Store requests arrive from peers that have left since: at the publisher
\* P a well-formed pair under its address, at W, started by main.rs, a pair
\* under a key of one byte and an empty value under a key of KeyLen bytes
InitStore ==
    /\ Started(("P" :> RT_new(InfoP, KeyLen)) @@ ("W" :> RT_new(InfoW, KeyLen)), {},
               {RpcMessage(<<7>>, InfoS, InfoP, "Request",
                           Request("Store", derive_address(PubKey), AddrKeyPair, 0), NoReply),
                RpcMessage(<<8>>, InfoU, InfoW, "Request",
                           Request("Store", <<24>>, AddrKeyPair, 0), NoReply),
                RpcMessage(<<9>>, InfoU, InfoW, "Request",
                           Request("Store", derive_address(PubKey), <<>>, 0), NoReply)},
               <<>>)
    /\ tasks = {}

(***************************************************************************)
(* service/network.rs: Publisher and Subscriber                            *)
(***************************************************************************)
\* Node::start for a node of the pubsub overlay behind the subscriber's
\* socket: the node is added to the node list of the Rpc, its table holds the
\* bootstrap peer, its handler loop runs with a clone of the node, and it
\* looks its own id up.  The receiver of Subscriber.tx lives in the task
\* Subscriber::new has spawned.
NodeStart(n, info, bootstrap, tid, open) ==
    /\ routes' = routes @@ (n :> RT_with(RT_new(info, KeyLen), bootstrap))
    /\ tokens' = tokens @@ (n :> {})
    /\ store' = store @@ (n :> {})
    /\ sink' = sink @@ (n :> <<>>)
    /\ host' = host @@ (n :> [serving |-> TRUE, listed |-> TRUE, loop |-> TRUE,
                              open |-> open, cli |-> FALSE])
    /\ hist' = [hist EXCEPT !.relays = @ @@ (n :> 0)]
    /\ tasks' = tasks \cup {[LookupCall(n, info.id) EXCEPT !.tid = tid]}

\* the node the subscriber starts next: the address followed by random
\* bytes is its id (Key::resize_with_random), the subscriber's socket its
\* address
NextNode ==
    LET k == Cardinality({n \in Live : Info(n).addr = "S"})
    IN  [name |-> IF k = 0 THEN "S" ELSE "S2", info |-> PubSub("S", 7, 5 + k),
         tid |-> <<2 + k>>]

\* the application makes its next call when the one before has returned
Calls(name) == app.calls # <<>> /\ Head(app.calls) = name /\ Idle

\* a subscribe that starts a node whatever the map holds
subscribe_always(addr) ==
    /\ Calls("subscribe")
    /\ NodeStart(NextNode.name, NextNode.info, <<InfoP>>, NextNode.tid, TRUE)
    /\ app' = [app EXCEPT !.calls = Tail(@), !.nodes = @ \cup {<<addr, NextNode.name>>}]
    /\ UNCHANGED <<net, mlog, chan>>

\* Subscriber::subscribe
subscribe(addr) ==
    /\ Calls("subscribe")
    /\ IF \E p \in app.nodes : p[1] = addr
       THEN /\ app' = [app EXCEPT !.calls = Tail(@)]
            /\ UNCHANGED <<routes, tokens, store, sink, host, hist, tasks>>
       ELSE /\ NodeStart(NextNode.name, NextNode.info, <<InfoP>>, NextNode.tid, TRUE)
            /\ app' = [app EXCEPT !.calls = Tail(@),
                                  !.nodes = @ \cup {<<addr, NextNode.name>>}]
    /\ UNCHANGED <<net, mlog, chan>>

\* Subscriber::stop_subscription: the Node is taken out of the map and
\* dropped.  The handler loop keeps its clone of the node, the Rpc its sender
\* of the node's request channel: nothing else changes.
stop_subscription(addr) ==
    /\ Calls("stop")
    /\ app' = [app EXCEPT !.calls = Tail(@),
                          !.nodes = {p \in @ : p[1] # addr},
                          !.dropped = @ \cup {<<p[2], Len(sink[p[2]])>> :
                                                 p \in {q \in app.nodes : q[1] = addr}}]
    /\ UNCHANGED <<routes, tokens, store, sink, tasks, net, host, hist, mlog, chan>>

\* Publisher::publish
publish(msg, dst) ==
    /\ Calls("publish")
    /\ tasks' = tasks \cup {MulticastCall("P", dst, msg)}
    /\ app' = [app EXCEPT !.calls = Tail(@)]
    /\ UNCHANGED <<routes, tokens, store, sink, net, host, hist, mlog, chan>>

\* Publisher::new as handle_client_message calls it for an established
\* client (server.rs lines 181-184, through create_publisher, once
\* register_pubkey has returned): a node whose id is the account's address,
\* zero-filled, is started behind the socket of the process whatever the map
\* of publishers holds; or_insert then keeps the publisher the map has and
\* drops the new one, and with it the receiver of the new node's sink
Publisher_new(addr) ==
    /\ Calls("establish")
    /\ LET k == Cardinality({n \in Live : Info(n).addr = "P"})
           name == IF k = 0 THEN "P" ELSE "P2"
           kept == \A p \in app.publishers : p[1] # addr
       IN  /\ NodeStart(name, NodeInfo(resize(addr, KeyLen), "P", PUBSUB_DHT),
                        <<InfoX(TRUE)>>, <<2 + k>>, kept)
           /\ app' = [app EXCEPT !.calls = Tail(@),
                                 !.publishers = IF kept THEN @ \cup {<<addr, name>>} ELSE @]
    /\ UNCHANGED <<net, mlog, chan>>

\* the process of an API server, bootstrapped with X: a client establishes
\* its account, and establishes it again (server.rs line 160 takes the
\* message whenever it comes)
InitPublisher ==
    /\ Started("X" :> RT_new(InfoX(TRUE), KeyLen), {}, {}, <<"establish", "establish">>)
    /\ tasks = {}

\* the publisher P of an address runs; a subscriber, bootstrapped with P,
\* subscribes to the address twice, or subscribes and stops, and then P
\* publishes
InitSubscriber ==
    /\ \E calls \in {<<"subscribe", "subscribe", "publish">>,
                      <<"subscribe", "stop", "publish">>} :
          Started("P" :> RT_new(InfoP, KeyLen), {}, {}, calls)
    /\ tasks = {}

Init ==
    \/ InitFullBucket
    \/ InitTriangle
    \/ InitPubSub
    \/ InitOutside
    \/ InitLookup
    \/ InitUserDHT
    \/ InitStaleAddr
    \/ InitForeign
    \/ InitGarbage
    \/ InitDeadSink
    \/ InitSubscriber
    \/ InitStore
    \/ InitPublisher

Next ==
    \/ \E t \in tasks : SendReq(t)
    \/ \E t \in tasks : Timeout(t)
    \/ \E d \in net : RecvRequest(d)
    \/ \E d \in net : RecvReply(d)
    \/ \E d \in net : Drop(d)
    \/ \E d \in net : ReadGarbage(d)
    \/ \E t \in tasks : HandleRoutes(t)
    \/ \E t \in tasks : HandleServe(t)
    \/ \E t \in tasks : CallLock(t)
    \/ \E t \in tasks : EvictLock(t)
    \/ \E t \in tasks : InsertToken(t)
    \/ \E t \in tasks : BroadcastLock(t)
    \/ \E t \in tasks : BroadcastNext(t)
    \/ \E t \in tasks : Expire(t)
    \/ \E t \in tasks : LookupLock(t)
    \/ \E t \in tasks : MulticastPick(t)
    \/ \E t \in tasks : MulticastSeq(t)
    \/ \E t \in tasks : RawReturn(t)
    \/ \E t \in tasks : MulticastLock(t)
    \/ \E t \in tasks : MulticastJoin(t)
    \/ \E t \in tasks : HandleFindValue(t)
    \/ \E t \in tasks : HandleFindValueNodes(t)
    \/ \E t \in tasks : LookupReturn(t)
    \/ \E t \in tasks : PutStore(t)
    \/ \E t \in tasks : PutJoin(t)
    \/ \E t \in tasks : LookupValueLock(t)
    \/ \E t \in tasks : GetReturn(t)
    \/ subscribe(Prefix)
    \/ stop_subscription(Prefix)
    \/ publish(Payload, Prefix)
    \/ Publisher_new(Prefix)

Spec == Init /\ [][Next]_vars

\* A pings B, which answers, and H1, which has left, at once; the calls run
\* through rpc.rs step by step, with no assumption on how long a step takes
InitRpc ==
    /\ Fresh(TriangleNet)
    /\ tasks = {[Task(<<1>>, "ping", "A", "r_send") EXCEPT !.peer = InfoB, !.cont = "lock"],
                [Task(<<2>>, "ping", "A", "r_send") EXCEPT !.peer = InfoH[1], !.cont = "lock"]}

NextRpc ==
    \/ \E t \in tasks : RpcSendReq(t)
    \/ \E t \in tasks : RpcTimeout(t)
    \/ \E t \in tasks : RpcForget(t)
    \/ \E d \in net : RpcHandleRep(d)
    \/ \E t \in tasks : RpcRecv(t)
    \/ \E t \in tasks : RpcDropRx(t)
    \/ \E d \in net : RecvRequest(d)
    \/ \E d \in net : Drop(d)
    \/ \E t \in tasks : HandleRoutes(t)
    \/ \E t \in tasks : HandleServe(t)
    \/ \E t \in tasks : CallLock(t)

SpecRpc == InitRpc /\ [][NextRpc]_vars

(***************************************************************************)
(* util/base64.rs                                                          *)
(***************************************************************************)
\* const TABLE, as the ASCII codes of "A..Za..z0..9+/"
TABLE ==
    [i \in 1..64 |-> IF i <= 26 THEN 64 + i
                     ELSE IF i <= 52 THEN 96 + (i - 26)
                     ELSE IF i <= 62 THEN 47 + (i - 52)
                     ELSE IF i = 63 THEN 43 ELSE 47]

\* a | b on u8
BitOr(a, b) ==
    LET RECURSIVE or(_)
        or(j) == IF j > 7 THEN 0
                 ELSE (IF (a \div 2^j) % 2 = 1 \/ (b \div 2^j) % 2 = 1 THEN 2^j ELSE 0)
                      + or(j + 1)
    IN  or(0)

\* an encode that leaves out the character of the last, partial group
encode_no_tail(data) ==
    LET RECURSIVE chars(_)
        chars(i) ==
            IF i > Len(data) THEN <<>>
            ELSE (CASE (i - 1) % 3 = 0 -> <<TABLE[(data[i] \div 4) + 1]>>
                    [] (i - 1) % 3 = 1 ->
                         <<TABLE[BitOr((data[i - 1] % 4) * 16, data[i] \div 16) + 1]>>
                    [] OTHER ->
                         <<TABLE[BitOr((data[i - 1] % 16) * 4, data[i] \div 64) + 1],
                           TABLE[(data[i] % 64) + 1]>>) \o chars(i + 1)
        pad_s == (4 - (Len(chars(1)) % 4)) % 4
    IN  chars(1) \o [i \in 1..pad_s |-> 61]

\* encode: `prev` is the byte before, x >> n is x \div 2^n, x & (2^n - 1) is
\* x % 2^n, and a shift to the left of a u8 drops the bits beyond the eighth
encode(data) ==
    IF data = <<>> THEN <<>>
    ELSE LET pad_d == (6 - ((Len(data) * 8) % 6)) % 6
             RECURSIVE chars(_)
             chars(i) ==
                 IF i > Len(data) THEN <<>>
                 ELSE (CASE (i - 1) % 3 = 0 -> <<TABLE[(data[i] \div 4) + 1]>>
                         [] (i - 1) % 3 = 1 ->
                              <<TABLE[BitOr((data[i - 1] % 4) * 16, data[i] \div 16) + 1]>>
                         [] OTHER ->
                              <<TABLE[BitOr((data[i - 1] % 16) * 4, data[i] \div 64) + 1],
                                TABLE[(data[i] % 64) + 1]>>) \o chars(i + 1)
             s == IF pad_d > 0
                  THEN Append(chars(1),
                              TABLE[(((data[Len(data)] * 2^pad_d) % 256) % 64) + 1])
                  ELSE chars(1)
             pad_s == (4 - (Len(s) % 4)) % 4
         IN  s \o [i \in 1..pad_s |-> 61]

\* decode, as Result: [ok, v]; the loop ends at the first '=' (61), a
\* character outside TABLE is an error
decode(data) ==
    LET RECURSIVE go(_, _, _)
        go(i, prev, v) ==
            IF i > Len(data) \/ data[i] = 61 THEN [ok |-> TRUE, v |-> v]
            ELSE IF \A j \in 1..64 : TABLE[j] # data[i] THEN [ok |-> FALSE, v |-> <<>>]
            ELSE LET x == (CHOOSE j \in 1..64 : TABLE[j] = data[i]) - 1
                 IN  CASE (i - 1) % 4 = 0 -> go(i + 1, (x * 4) % 256, v)
                       [] (i - 1) % 4 = 1 ->
                            go(i + 1, (x * 16) % 256, Append(v, BitOr(prev, x \div 16)))
                       [] (i - 1) % 4 = 2 ->
                            go(i + 1, (x * 64) % 256, Append(v, BitOr(prev, x \div 4)))
                       [] OTHER -> go(i + 1, prev, Append(v, BitOr(prev, x)))
    IN  go(1, 0, <<>>)

(***************************************************************************)
(* service/user_handle.rs and user/post.rs.  A post is its id, its content *)
(* (<<1, text>> for a Hoot, <<2, id>> for a ReHoot, <<3, id>> for a        *)
(* Delete) and its time of creation; serde_json::to_vec writes them out in *)
(* that order.                                                             *)
(***************************************************************************)
\* UserHandle::create_post on a handle that holds `posts`: the id follows
\* the last post's, the post is signed and pushed; when sign panics nothing
\* is pushed
create_post(posts, content, now) ==
    LET id == IF posts = <<>> THEN 0 ELSE posts[Len(posts)].post.id + 1
        signature == sign(app.signing_key, (<<id>> \o content) \o <<now>>)
        sigpost == [addr |-> derive_address(public_key(app.signing_key)),
                    post |-> [id |-> id, content |-> content, created_at |-> now],
                    signature |-> signature]
    IN  /\ app.fn = "UserHandle" /\ app.n < MaxOps /\ ~app.panicked
        /\ app' = IF signature = <<>>
                  THEN [app EXCEPT !.n = @ + 1, !.posts = posts, !.panicked = TRUE]
                  ELSE [app EXCEPT !.n = @ + 1, !.posts = Append(posts, sigpost),
                                   !.issued = Append(@, sigpost)]
        /\ UNCHANGED <<routes, tokens, store, sink, tasks, net, host, hist, mlog, chan>>

\* UserHandle::del: None when no post has the id; else the post is taken out
\* and a Delete post is created
del(id, now) ==
    LET Hit(sigpost) == sigpost.post.id = id
        hits == SelectSeq(app.posts, Hit)
    IN  /\ app.fn = "UserHandle"
        /\ hits # <<>>
        /\ create_post(RemoveAt(app.posts, PositionOf(app.posts, hits[1])), <<3, id>>, now)

\* SignedPost::verify under the key of the handle, of the i-th issued post
\* as it arrives (ApiServer, ClientMessage::Post): unchanged, or with
\* another id, another address, the lowest bit of S flipped, or L added to S
verify(i, arrives) ==
    LET sent == app.issued[i]
        S == from_bytes_le(SubSeq(sent.signature, KeyLen + 1, 2 * KeyLen))
        le(x) == [j \in 1..KeyLen |-> (x \div 256^(j - 1)) % 256]
        with(S2) == SubSeq(sent.signature, 1, KeyLen) \o le(S2)
        sp == CASE arrives = "as sent" -> sent
                [] arrives = "post" -> [sent EXCEPT !.post.id = @ + 1]
                [] arrives = "addr" -> [sent EXCEPT !.addr[1] = (@ + 1) % 256]
                [] arrives = "S flipped" ->
                     [sent EXCEPT !.signature = with(IF S % 2 = 0 THEN S + 1 ELSE S - 1)]
                [] arrives = "S plus L" -> [sent EXCEPT !.signature = with(S + L_ORDER)]
        pubkey == public_key(app.signing_key)
        \* PublicKey::verify: R and the key are decoded, S is read with
        \* no bound, S * B is compared with R + k * A
        r == from_bytes_le(SubSeq(sp.signature, 1, KeyLen))
        a == from_bytes_le(pubkey)
        s == from_bytes_le(SubSeq(sp.signature, KeyLen + 1, 2 * KeyLen))
        k == h_int((le(r) \o pubkey) \o ((<<sp.post.id>> \o sp.post.content)
                                            \o <<sp.post.created_at>>))
        result == IF sp.addr # derive_address(pubkey) THEN "Address"
                  ELSE IF r >= L_ORDER \/ a >= L_ORDER THEN "Point"
                  ELSE IF (1 * s) % L_ORDER # (r + ((a * k) % L_ORDER)) % L_ORDER
                  THEN "Signature" ELSE "Ok"
    IN  /\ app.fn = "UserHandle"
        /\ app' = [app EXCEPT !.check = [arrives |-> arrives, result |-> result]]
        /\ UNCHANGED <<routes, tokens, store, sink, tasks, net, host, hist, mlog, chan>>

(***************************************************************************)
(* The functions and the data structures on their own: SpecLocal applies   *)
(* them to inputs drawn from bounded sets                                  *)
(***************************************************************************)
\* Router::start lines 48-56, for one received post whose author has the
\* sender list v: the post is sent into every sender, the indices of the
\* senders whose receiver is gone are collected in ascending order, and
\* swap_remove is called with each of them in turn.  Vec::swap_remove puts
\* the last element into the place of the removed one and panics when the
\* index is not below the length.
Router_start(v) ==
    LET remove_list == SelectSeq([i \in 1..Len(v) |-> i], LAMBDA i : ~v[i].live)
        swap_remove(w, i) ==
            [j \in 1..(Len(w) - 1) |-> IF j = i THEN w[Len(w)] ELSE w[j]]
        RECURSIVE go(_, _)
        go(w, list) ==
            IF list = <<>> THEN [v |-> w, panicked |-> FALSE]
            ELSE IF Head(list) > Len(w) THEN [v |-> w, panicked |-> TRUE]
            ELSE go(swap_remove(w, Head(list)), Tail(list))
    IN  go(v, remove_list)

\* the function named by app.fn is applied to app.arg
Evaluate ==
    /\ ~app.done
    /\ app' = [app EXCEPT
                  !.done = TRUE,
                  !.ret = CASE app.fn = "base64" -> decode(encode(app.arg))
                            [] app.fn = "predicate" -> is_valid_addr_pubkey_pair(app.arg)
                            [] app.fn = "update" -> RT_update(app.arg.rt, app.arg.info)
                            [] app.fn = "remove" -> RT_remove(app.arg.rt, app.arg.info)
                            [] app.fn = "forward" -> Router_start(app.arg)
                            [] app.fn = "closest_nodes" ->
                                 RT_closest_nodes(app.arg.rt, app.arg.item, app.arg.count)
                            \* multicast line 479: the filter on the distance to
                            \* the zero-padded prefix
                            [] app.fn = "hit" ->
                                 zeroes_in_prefix(KeyXor(app.arg.id,
                                                         resize(app.arg.prefix, KeyLen)))
                                     >= Len(app.arg.prefix) * 8]
    /\ UNCHANGED <<routes, tokens, store, sink, tasks, net, host, hist, mlog, chan>>

InitLocal ==
    /\ routes = <<>> /\ tokens = <<>> /\ store = <<>> /\ sink = <<>> /\ host = <<>>
    /\ tasks = {} /\ net = {} /\ mlog = {} /\ chan = <<>>
    /\ hist = [relays |-> <<>>, unanswered |-> FALSE, returned |-> {}, panics |-> {}]
    /\ LET \* the byte strings of up to MaxLen bytes
           ByteStrings == UNION {[1..n -> {0, 97, 255}] : n \in 0..MaxLen}
           \* the tables of A after it has seen some peers, oldest first: up
           \* to a full bucket and a peer of another bucket, in two orders
           Seen == InfoH \o <<InfoT>>
           Tables == {RT_with(RT_new(InfoA, KeyLen), SubSeq(Seen, 1, n)) : n \in 0..Len(Seen)}
                       \cup {RT_with(RT_new(InfoA, KeyLen), SubSeq(Reverse(Seen), 1, n)) :
                               n \in 1..Len(Seen)}
           \* peers whose ids agree in the first byte, and one next to them
           Near == <<PubSub("Q1", 5, 9), PubSub("Q2", 5, 3), PubSub("Q3", 4, 200),
                     PubSub("Q4", 5, 130)>>
           \* the owner, residents, strangers, and a resident's id under
           \* another address or overlay
           Infos == {InfoA, InfoB, InfoT, InfoH[1], InfoH[4], InfoH[8],
                     [InfoH[1] EXCEPT !.addr = "Z"], [InfoT EXCEPT !.net_id = USER_DHT]}
       IN  \/ \E m \in ByteStrings :
                app = [fn |-> "base64", arg |-> m, ret |-> <<>>, done |-> FALSE]
           \/ \E rt \in Tables, info \in Infos, fn \in {"update", "remove"} :
                app = [fn |-> fn, arg |-> [rt |-> rt, info |-> info], ret |-> <<>>,
                       done |-> FALSE]
           \* tables whose residents share their first byte or differ in it, a
           \* target that is resident, the owner's id and ids of no resident,
           \* counts below, at and above the number of residents
           \/ \E rt \in Tables \cup {RT_with(RT_new(InfoA, KeyLen), Near)},
                   item \in {InfoA.id, InfoH[4].id, MkId(5, 3), MkId(4, 7), MkId(255, 255)},
                   count \in {0, 1, 2, 3, K_PARAM, K_PARAM + 2} :
                app = [fn |-> "closest_nodes",
                       arg |-> [rt |-> rt, item |-> item, count |-> count],
                       ret |-> <<>>, done |-> FALSE]
           \* the sender lists of up to MaxLen clients, each with its receiver
           \* alive or gone
           \/ \E n \in 0..MaxLen : \E live \in [1..n -> BOOLEAN] :
                app = [fn |-> "forward",
                       arg |-> [i \in 1..n |-> [client |-> i, live |-> live[i]]],
                       ret |-> <<>>, done |-> FALSE]
           \* every prefix shorter than the key and every id, over a few bytes
           \/ \E n \in 0..(KeyLen - 1) :
                \E prefix \in [1..n -> {0, 1, 128, 255}], id \in [1..KeyLen -> {0, 1, 128, 255}] :
                   app = [fn |-> "hit", arg |-> [prefix |-> prefix, id |-> id],
                          ret |-> <<>>, done |-> FALSE]
           \* key bytes that are a point and key bytes that are none, under
           \* the address of the key or another one; the pair as it is, a byte
           \* short, a byte long, and nothing
           \/ \E pk \in [1..KeyLen -> {0, 3, 4, 255}], off \in {0, 1},
                   cut \in {"pair", "short", "long", "empty"} :
                LET pair == [derive_address(pk) EXCEPT ![1] = (@ + off) % 256] \o pk
                IN  app = [fn |-> "predicate",
                           arg |-> CASE cut = "pair" -> pair
                                     [] cut = "short" -> Tail(pair)
                                     [] cut = "long" -> Append(pair, 0)
                                     [] cut = "empty" -> <<>>,
                           ret |-> <<>>, done |-> FALSE]
           \* a handle with no posts yet
           \/ app = [fn |-> "UserHandle", signing_key |-> MkId(1, 2), posts |-> <<>>,
                     issued |-> <<>>, panicked |-> FALSE, check |-> <<>>, n |-> 0,
                     done |-> TRUE]

NextLocal ==
    \/ Evaluate
    \/ \E content \in {<<1, 1>>, <<2, 0>>}, now \in 0..2 :
          app.fn = "UserHandle" /\ create_post(app.posts, content, now)
    \/ \E id \in 0..MaxOps, now \in 0..2 : del(id, now)
    \/ \E i \in 1..MaxOps, arrives \in {"as sent", "post", "addr", "S flipped", "S plus L"} :
          app.fn = "UserHandle" /\ i <= Len(app.issued) /\ verify(i, arrives)

SpecLocal == InitLocal /\ [][NextLocal]_vars

(***************************************************************************)
(* The properties                                                          *)
(***************************************************************************)
\* the bucket of node n that holds the ids of info's class
BucketOf(n, info) ==
    routes[n].buckets[lookup_bucket_index(routes[n], info.id)]

\* whether info is a resident of a bucket
InBucket(b, info) == \E i \in 1..Len(b) : b[i] = info

\* a task that pings a displaced head is under way on some node
EvictPending == \E t \in tasks : t.kind = "evict"

\* the ping-and-resolve task of A, whose bucket of B's class is full, has
\* ended with the outcome the head's answer calls for
EvictResolved ==
    /\ ~EvictPending
    /\ ("A" \in Live /\ Len(BucketOf("A", InfoB)) = K_PARAM) =>
       LET b == BucketOf("A", InfoB)
       IN  IF "H1" \in Live
           THEN /\ b # <<>> /\ b[Len(b)] = InfoH[1]
                /\ ~InBucket(b, InfoB)
           ELSE /\ ~InBucket(b, InfoH[1])
                /\ b # <<>> /\ b[Len(b)] = InfoB

\* C1: when a request of the unknown peer B meets A's full bucket with head
\* H1, the task that pings H1 always completes: once nothing but expiry
\* timers is left to run, the task has ended, with H1 at the tail and B
\* absent if H1 replied, with H1 gone and B appended if it did not.
C1_EvictionCompletes == Idle => EvictResolved

\* the relays of the payload that node n has started and whose dedup window
\* is open: each relay comes with the task that ends the window
OpenRelays(n) ==
    {t \in tasks : t.kind = "expiry" /\ t.node = n /\ t.req.msg = Payload}

\* C3: a node that receives the same Broadcast payload several times within
\* the dedup window, two receipts handled concurrently included, starts at
\* most one relay for the payload's fingerprint.
C3_AtMostOneRelay == \A n \in Live : Cardinality(OpenRelays(n)) <= 1

\* whether the payload has been handed to the application sink of node n
Delivered(n) == \E i \in 1..Len(sink[n]) : sink[n][i] = Payload

\* the running nodes that are residents of n's routing table
Peers(n) ==
    {m \in Live : \E i \in 1..Len(Flatten(routes[n], 0)) : Flatten(routes[n], 0)[i] = Info(m)}

RECURSIVE Reach(_)
\* the nodes reachable from the nodes of S over routing-table edges
Reach(S) ==
    LET more == S \cup UNION {Peers(n) : n \in S}
    IN  IF more = S THEN S ELSE Reach(more)

\* the nodes that hold the payload's fingerprint: the originator of the flood
\* and the nodes that relay it
Holders == {n \in Live : KeyHash(Payload) \in tokens[n]}

\* C8: after broadcast(m) every node reachable from the originator over
\* routing-table edges has m handed to its sink, and the flood terminates:
\* once nothing but expiry timers is left to run, every node a holder of the
\* fingerprint reaches is the originator or has m in its sink, provided
\* that every call was answered.
C8_FloodReachesAll ==
    (Idle /\ ~hist.unanswered) => \A n \in Reach(Holders) : n \in Holders \/ Delivered(n)

\* how often the payload has been handed to the sink of node n
Deliveries(n) == Cardinality({i \in 1..Len(sink[n]) : sink[n][i] = Payload})

\* whether the id of node n begins with the bytes of p
HasPrefix(n, p) ==
    /\ Len(p) <= Len(Info(n).id)
    /\ SubSeq(Info(n).id, 1, Len(p)) = p

\* C5: when P publishes one post to its address and S has subscribed to that
\* address, S's channel receives the post exactly once: once P's multicast
\* has run (its fingerprint is in P's broadcast_tokens and the call has
\* ended) and nothing but expiry timers is left to run, the post has been
\* handed once to the sink of every subscribed node, not lost and not
\* duplicated.  A node stop_subscription has dropped, and a second node
\* behind the publisher's own socket, are no subscribers.
C5_ExactlyOnce ==
    (/\ Idle /\ "P" \in Live
     /\ KeyHash(Payload) \in tokens["P"]
     /\ \A t \in tasks : ~(t.kind = "multicast" /\ t.node = "P")) =>
        \A n \in Live \ {"P"} :
            (/\ HasPrefix(n, Prefix)
             /\ Info(n).addr # "P"
             /\ \A d \in app.dropped : d[1] # n) => Deliveries(n) = 1

\* C6: multicast(p, m) started at any node hands m to the sink of every
\* responsive node that is reachable through routing tables and whose id has
\* p as a prefix, also when the originator is outside the subtree and knows
\* no node inside it: once nothing but expiry timers is left to run and
\* every call was answered, each such node has m in its sink.
C6_MulticastReachesSubtree ==
    (Idle /\ "O" \in Live /\ ~hist.unanswered) =>
        \A n \in Reach(Holders) : HasPrefix(n, Prefix) => Delivered(n)

\* C7: a Multicast(prefix, msg) request is handed to the receiving node's
\* sink if and only if the node's id begins with the bytes of prefix.
C7_SinkIffPrefix ==
    \A e \in mlog : e[3] <=> HasPrefix(e[1], e[2])

\* a node outside the subtree has handled the Multicast without feeding its
\* sink and a node inside it has handled it and fed its sink
C7_Witness ==
    /\ \E e \in mlog : e[3] /\ HasPrefix(e[1], e[2])
    /\ \E e \in mlog : ~e[3] /\ ~HasPrefix(e[1], e[2])

\* the positions at which a task sends a datagram, waits for the outcome of
\* an RPC or for a task that does, or asks for a mutex
AwaitPcs ==
    {"send", "wait", "l_join", "m_join", "p_join", "v_join", "v_lock", "h_serve"}
        \cup RoutesLockPcs

\* C2: no task holds a mutex of its node while it sends a datagram, waits
\* for the outcome of an RPC, or acquires another mutex.
C2_NoMutexAcrossAwait ==
    \A t \in tasks : t.pc \in AwaitPcs => t.held = {}

\* C4: a pair the user-DHT predicate accepts, put by one user-DHT node, is
\* what get returns on another user-DHT node that knows the storer, whether
\* the nodes were started by UserDHT::start or otherwise
C4_PutGetRoundTrip ==
    is_valid_addr_pubkey_pair(AddrKeyPair) =>
        \A r \in hist.returned : r[1] = "get" => r[3] = Some(AddrKeyPair)

\* C9: with every call answered, lookup_nodes returns every node that can be
\* reached from the caller through routing tables (fewer than K_PARAM here),
\* the ones its own table did not hold included
C9_LookupIsIterative ==
    \A r \in hist.returned :
        (r[1] = "lookup_nodes" /\ ~hist.unanswered) =>
            \A n \in Reach({r[2]}) : \E i \in 1..Len(r[3]) : r[3][i] = Info(n)

\* C10: the reply sink of a send_req call receives at most one item, a
\* Reply or the "no reply" signal, however the arrival of the reply, the
\* timeout task and the caller's recv interleave
C10_SinkAtMostOneItem == \A c \in DOMAIN chan : Len(chan[c].items) <= 1

\* C11: an entry of the pending table is gone once the timeout task of its
\* call has ended, whether or not the caller still holds the receiver
C11_PendingRemoved ==
    \A c \in DOMAIN chan :
        (\A t \in tasks : ~(t.kind = "timer" /\ t.wait = c)) => ~chan[c].pending

\* C12: when a call towards dst returns on a timeout or on a reply of the
\* wrong kind, the caller's routing table holds no entry of dst's id
C12_FailedPeerEvicted ==
    [][\A t \in tasks :
          (t.pc = "lock" /\ t \notin tasks' /\ t.rep.op # Expected(t.req.op)) =>
              \A i \in 1..Len(Flatten(routes'[t.node], 0)) :
                  Flatten(routes'[t.node], 0)[i].id # t.peer.id]_vars

\* C13: a reply whose token is not pending changes neither a sink nor the
\* pending table; a reply whose token is pending is appended to the sink of
\* that token, and the entry is removed
C13_ReplyDispatch ==
    [][\A d \in net :
          (d.kind = "Reply" /\ Accepted(d) /\ d \notin net') =>
              LET hit == UNION {Pending(n, d.token) : n \in NodeAt(d.dst)}
              IN  IF hit = {} THEN chan' = chan
                  ELSE \A c \in hit : /\ chan'[c].items = Append(chan[c].items, d.rep)
                                       /\ ~chan'[c].pending]_vars

\* C14: the token a send_req call inserts is not a key of the pending table
\* of its Rpc at that moment, whatever other calls are in flight
C14_TokenNotPending ==
    [][\A c \in DOMAIN chan' \ DOMAIN chan :
          Pending(chan'[c].rpc, chan'[c].token) = {}]_vars

\* two calls of one Rpc are pending together
C14_Witness ==
    \E c1, c2 \in DOMAIN chan :
        /\ c1 # c2 /\ chan[c1].rpc = chan[c2].rpc
        /\ chan[c1].pending /\ chan[c2].pending
        /\ chan[c1].token # chan[c2].token

\* C15: every resident p of bucket i of a node's table has
\* zeroes_in_prefix(owner.id XOR p.id) = i, and no id is resident twice
C15_BucketOfDistance ==
    \A n \in Live :
        /\ \A b \in DOMAIN routes[n].buckets : \A i \in 1..Len(routes[n].buckets[b]) :
              zeroes_in_prefix(KeyXor(Info(n).id, routes[n].buckets[b][i].id)) = b
        /\ \A i, j \in 1..Len(Flatten(routes[n], 0)) :
              Flatten(routes[n], 0)[i].id = Flatten(routes[n], 0)[j].id => i = j

\* a table that has seen removes and updates: the owner's own entry has been
\* removed after a call to itself failed, and a peer that answered is resident
C15_Witness ==
    \E n \in Live :
        /\ \A i \in 1..Len(Flatten(routes[n], 0)) : Flatten(routes[n], 0)[i] # Info(n)
        /\ Flatten(routes[n], 0) # <<>>
        /\ \E r \in hist.returned : r[1] = "get" /\ r[2] = n /\ r[3] # None

\* C16: no bucket of a routing table holds more than K_PARAM entries, the
\* states between a request's route update and the end of the eviction ping
\* it started included
C16_BucketBounded ==
    \A n \in Live : \A b \in DOMAIN routes[n].buckets :
        Len(routes[n].buckets[b]) <= K_PARAM

\* a request from a new peer has met a full bucket: the eviction task runs,
\* and the bucket is still full
C16_Witness ==
    \E t \in tasks :
        /\ t.kind = "evict"
        /\ Len(BucketOf(t.node, t.cand)) = K_PARAM
        /\ ~InBucket(BucketOf(t.node, t.cand), t.cand)

\* C17: a datagram whose src.net_id differs from the net_id of the hosted
\* node its dst names is taken off the socket with nothing else changed: no
\* handler task, no resumed call, no routing table, store, token set or sink
\* touched, no reply sent
C17_ForeignNetDropped ==
    [][\A d \in net :
          (/\ NodeAt(d.dst) # {}
           /\ \E n \in NodeAt(d.dst) : d.src.net_id # Info(n).net_id
           /\ d \notin net') =>
              /\ net' = net \ {d}
              /\ UNCHANGED <<routes, tokens, store, sink, tasks, host, chan, app>>]_vars

\* W's server has read both datagrams of P while W's call was pending, and
\* W's table holds no entry of P
C17_Witness ==
    /\ "P" \in Live /\ "W" \in Live
    /\ net \cap ForeignDatagrams = {}
    /\ \A i \in 1..Len(Flatten(routes["W"], 0)) : Flatten(routes["W"], 0)[i] # InfoP
    /\ \E t \in tasks : t.node = "W" /\ t.pc = "wait"

\* C18: whatever bytes and whatever dst ids its socket has received, the
\* server loop of a node's Rpc keeps running, so that later requests are
\* dispatched
C18_ServerKeepsRunning == \A n \in Live : host[n].serving

\* C19: no request that the server has dispatched makes the handler panic,
\* whatever the length of its src.id
C19_NoHandlerPanic == \A p \in hist.panics : p[2] # "update"

\* C20: when the consumer of a node's sink is gone the node is taken off the
\* node list, and no call made on that node panics
C20_DeadSinkOnlyDelists ==
    \A n \in Live : ~host[n].open => <<n, "send_req">> \notin hist.panics

\* C23: every fingerprint a node has put into its broadcast-token set, as
\* the originator or as a relay, is removed again BROADCAST_TIME_OUT later:
\* once every task has ended, the expiry timers included, no node holds a
\* fingerprint
C23_FingerprintsExpire ==
    (tasks = {} /\ net = {}) => \A n \in Live : tokens[n] = {}

\* C21: after stop_subscription the node that subscribe had started stops:
\* no Multicast it receives afterwards is fed into the subscriber's channel,
\* so its sink keeps the length it had when the node was dropped
C21_StoppedNodeFeedsNothing ==
    \A d \in app.dropped : Len(sink[d[1]]) = d[2]

\* C22: subscribe is idempotent: with no stop_subscription so far the map
\* and the node list hold at most one node for the address, and a subscribe
\* to an address the map holds changes nothing and starts no node
C22_SubscribeIdempotent ==
    /\ [](app.dropped = {} =>
            /\ Cardinality(app.nodes) <= 1
            /\ Cardinality({n \in Live : Info(n).addr = "S" /\ host[n].listed}) <= 1)
    /\ [][(Calls("subscribe") /\ app.nodes # {} /\ app'.calls = Tail(app.calls)) =>
            /\ UNCHANGED <<routes, tokens, store, sink, tasks, net, host, hist, mlog, chan>>
            /\ app'.nodes = app.nodes]_vars

\* subscribe has been called twice with no stop in between, and one node runs
C22_Witness ==
    /\ app.calls = <<"publish">> /\ app.dropped = {}
    /\ app.nodes = {<<Prefix, "S">>}
    /\ "S" \in Live /\ host["S"].listed

\* C27: decode(encode(m)) returns m for every byte string m, whatever its
\* length modulo 3, the empty string included
C27_Base64RoundTrip ==
    (app.fn = "base64" /\ app.done) => app.ret = [ok |-> TRUE, v |-> app.arg]

\* a string of one byte more than a full group has made the round trip
C27_Witness ==
    /\ app.fn = "base64" /\ app.done
    /\ Len(app.arg) = 4 /\ app.ret.v = app.arg

\* C28: whenever update(info) returns no candidate, an entry with info.id is
\* afterwards the last entry of its bucket, the other entries of that bucket
\* keep their relative order, and no other bucket changes
C28_UpdateMovesToTail ==
    (app.fn = "update" /\ app.done /\ app.ret.ret = None) =>
        LET b == lookup_bucket_index(app.arg.rt, app.arg.info.id)
            old == app.arg.rt.buckets[b]
            new == app.ret.rt.buckets[b]
            Other(x) == x.id # app.arg.info.id
        IN  /\ new # <<>> /\ new[Len(new)].id = app.arg.info.id
            /\ SubSeq(new, 1, Len(new) - 1) = SelectSeq(old, Other)
            /\ \A c \in DOMAIN app.arg.rt.buckets :
                  c # b => app.ret.rt.buckets[c] = app.arg.rt.buckets[c]

\* a resident that was not the last of its bucket of several entries has
\* been updated
C28_Witness ==
    /\ app.fn = "update" /\ app.done /\ app.ret.ret = None
    /\ LET old == app.arg.rt.buckets[lookup_bucket_index(app.arg.rt, app.arg.info.id)]
       IN  /\ Len(old) > 2
           /\ \E i \in 1..(Len(old) - 1) : old[i].id = app.arg.info.id

\* C29: update(info) with an id that is not resident and whose bucket holds
\* K_PARAM entries returns the head of that bucket and leaves the table as
\* it is
C29_FullBucketReturnsHead ==
    (app.fn = "update" /\ app.done) =>
        LET old == app.arg.rt.buckets[lookup_bucket_index(app.arg.rt, app.arg.info.id)]
        IN  (Len(old) = K_PARAM /\ \A i \in 1..Len(old) : old[i].id # app.arg.info.id) =>
                /\ app.ret.ret = Some(old[1])
                /\ app.ret.rt = app.arg.rt

\* a stranger has been handed to update while its bucket was full
C29_Witness ==
    /\ app.fn = "update" /\ app.done /\ app.arg.info = InfoB
    /\ Len(app.arg.rt.buckets[lookup_bucket_index(app.arg.rt, InfoB.id)]) = K_PARAM
    /\ app.ret.ret # None

\* C30: remove(info) deletes the resident entry whose id is info.id,
\* whatever addr and net_id that entry or info carry; when no entry has that
\* id the table is unchanged
C30_RemoveById ==
    (app.fn = "remove" /\ app.done) =>
        LET b == lookup_bucket_index(app.arg.rt, app.arg.info.id)
            Other(x) == x.id # app.arg.info.id
        IN  app.ret = [app.arg.rt EXCEPT !.buckets[b] = SelectSeq(@, Other)]

\* C24: over any sequence of hoot, rehoot and del calls on one UserHandle the
\* ids of the signed posts it issues are strictly increasing
C24_IdsIncrease ==
    app.fn = "UserHandle" =>
        \A i, j \in DOMAIN app.issued :
            i < j => app.issued[i].post.id < app.issued[j].post.id

C26_SignedPostVerifies ==
    app.fn = "UserHandle" =>
        /\ ~app.panicked
        /\ app.check # <<>> => (app.check.result = "Ok" <=> app.check.arrives = "as sent")


\* C31: closest_nodes(target, n) returns min(n, number of residents)
\* residents, each paired with its id XOR target, in ascending order of that
\* distance read as a number; no resident left out is strictly closer to the
\* target than a returned one, and n = 0 returns the empty list
C31_ClosestNodes ==
    (app.fn = "closest_nodes" /\ app.done) =>
        LET all == Flatten(app.arg.rt, 0)
            ret == app.ret
            RECURSIVE Num(_)
            Num(k) == IF k = <<>> THEN 0 ELSE Num(SubSeq(k, 1, Len(k) - 1)) * 256 + k[Len(k)]
            Dist(x) == Num(KeyXor(x.id, app.arg.item))
            Out == {all[j] : j \in 1..Len(all)} \ {ret[i][1] : i \in 1..Len(ret)}
        IN  /\ Len(ret) = IF app.arg.count < Len(all) THEN app.arg.count ELSE Len(all)
            /\ \A i \in 1..Len(ret) :
                  /\ \E j \in 1..Len(all) : all[j] = ret[i][1]
                  /\ ret[i][2] = KeyXor(ret[i][1].id, app.arg.item)
                  /\ \A j \in 1..Len(ret) : i < j =>
                        /\ ret[i][1] # ret[j][1]
                        /\ Dist(ret[i][1]) <= Dist(ret[j][1])
                  /\ \A x \in Out : Dist(x) >= Dist(ret[i][1])
            /\ app.arg.count = 0 => ret = <<>>

\* fewer residents than the table holds were asked for, and the nearest one
\* was not the first resident in bucket order
C31_Witness ==
    /\ app.fn = "closest_nodes" /\ app.done
    /\ LET all == Flatten(app.arg.rt, 0)
       IN  /\ Len(app.ret) = app.arg.count /\ 1 < app.arg.count /\ app.arg.count < Len(all)
           /\ app.ret[1][1] # all[1]

\* C32: for every prefix shorter than key_length and every id of key_length
\* bytes, the hit test of multicast, zeroes_in_prefix(id XOR zero-padded
\* prefix) >= 8 * |prefix|, is true exactly when the prefix is a byte-prefix
\* of the id, which is what the delivery predicate is_prefix computes
C32_HitIffPrefix ==
    (app.fn = "hit" /\ app.done) =>
        /\ app.ret = (SubSeq(app.arg.id, 1, Len(app.arg.prefix)) = app.arg.prefix)
        /\ app.ret = is_prefix(app.arg.prefix, app.arg.id)

\* the id is the zero-padded prefix itself, so that the distance is zero,
\* and it has been found to be a hit
C32_Witness ==
    /\ app.fn = "hit" /\ app.done /\ app.ret
    /\ app.arg.prefix # <<>>
    /\ app.arg.id = resize(app.arg.prefix, KeyLen)

\* C33: during one lookup_nodes call, at most 3 (the spec's alpha) of the
\* FindNode calls that lookup has issued are in flight, sent and not yet
\* answered or timed out, at the same time
C33_AtMostAlphaInFlight ==
    \A t \in tasks :
        t.pc = "l_join" =>
            Cardinality({c \in Children(t) : c.kind = "find_node" /\ c.pc = "wait"}) <= 3

\* C34: when get(k) has found the value, the Store it sends goes to the peer
\* closest to hash(k) among the queried peers that answered without the
\* value, and so to no peer further away than that one
C34_CachesAtClosest ==
    [][\A t \in tasks :
          LET nodes == {g[1] : g \in {h \in t.got : h[2].op = "FindValue" /\ h[2].val = None}}
              RECURSIVE Num(_)
              Num(k) == IF k = <<>> THEN 0 ELSE Num(SubSeq(k, 1, Len(k) - 1)) * 256 + k[Len(k)]
              Dist(x) == Num(KeyXor(x.id, t.target))
          IN  (t.kind = "get" /\ t.pc = "v_join" /\ nodes # {}) =>
                  \A t2 \in tasks' :
                      (t2.tid = t.tid /\ t2.node = t.node /\ t2.pc = "send") =>
                          /\ t2.req.op = "Store"
                          /\ t2.peer \in nodes
                          /\ \A x \in nodes : Dist(t2.peer) <= Dist(x)]_vars

\* C35: in every reachable state each entry (k, v) of a node's store has a
\* key of key_length bytes and a value its predicate accepts, so that the
\* store of a pubsub node is empty; and a handler that serves a Store request
\* replies Ping, leaving the store as it is when the key has another length
\* or the predicate rejects the value
C35_StoreHoldsValidEntries ==
    /\ [](\A n \in Live :
            /\ \A e \in store[n] : Len(e[1]) = KeyLen /\ store_predicate(n, e[2])
            /\ Info(n).net_id = PUBSUB_DHT => store[n] = {})
    /\ [][\A t \in tasks :
            (t.kind = "handler" /\ t.pc = "h_serve" /\ t.req.op = "Store"
               /\ t \notin tasks') =>
                /\ ReplyTo(t, ReplyPing) \in net'
                /\ (Len(t.req.key) # KeyLen \/ ~store_predicate(t.node, t.req.val)) =>
                      store' = store]_vars

\* the publisher has answered the Store of a well-formed pair and holds
\* nothing, W has answered the Store under the short key and holds only the
\* entry under the key of KeyLen bytes
C35_Witness ==
    /\ Live = {"P", "W"}
    /\ store["P"] = {} /\ store["W"] = {<<derive_address(PubKey), <<>>>>}
    /\ \E d \in net : /\ d.kind = "Reply" /\ d.src = InfoP
                       /\ d.req.op = "Store" /\ d.rep = ReplyPing
    /\ \E d \in net : /\ d.kind = "Reply" /\ d.src = InfoW
                       /\ d.req.key = <<24>> /\ d.rep = ReplyPing

\* C36: every request handed to a node's request handler is eventually
\* answered: once no datagram is on its way, no task can take a step and
\* every call has had its outcome, no handler is left waiting for the
\* routing-table mutex or any other
C36_RequestsAnswered == Idle => \A t \in tasks : t.kind # "handler"

\* C37: a node started by UserDHT::start, whose application sink nobody
\* reads, keeps its handler loop and its place in the node list of the Rpc,
\* so that the requests that reach it are handled and answered
C37_UserDHTKeepsAnswering ==
    \A n \in Live : ~host[n].open => (host[n].loop /\ host[n].listed)

\* C38: get_pubkey(addr) returns only a public key whose derived address is
\* addr, whatever well-formed pair a peer has stored under the key addr
C38_PubkeyMatchesAddr ==
    \A r \in hist.returned :
        (r[1] = "get_pubkey" /\ r[3][2] # None) => derive_address(r[3][2][1]) = r[3][1]

\* C39: no two entries of the node list of an Rpc carry the same node id,
\* whatever publishers and subscribers the process has created, a second
\* publisher of one account included
C39_NodeListIdsDistinct ==
    \A m, n \in Live :
        (m # n /\ host[m].listed /\ host[n].listed /\ Info(m).addr = Info(n).addr) =>
            Info(m).id # Info(n).id

\* C40: when the Router has forwarded a post to the clients registered for
\* its author, the author's sender list holds exactly the senders whose send
\* succeeded, whichever senders are dead: no live sender has been removed,
\* no dead one kept, and no removal index was out of range
C40_ListKeepsLiveSenders ==
    (app.fn = "forward" /\ app.done) =>
        /\ ~app.ret.panicked
        /\ {app.ret.v[i] : i \in 1..Len(app.ret.v)}
              = {app.arg[i] : i \in {j \in 1..Len(app.arg) : app.arg[j].live}}
        /\ Len(app.ret.v) = Cardinality({j \in 1..Len(app.arg) : app.arg[j].live})
=============================================================================
